---- MODULE Spec2Model ----
(***************************************************************************)
(* Request binding of the OpenAPI validation middleware                    *)
(* (aws_lambda_powertools/event_handler/middlewares/openapi_validation.py).*)
(*                                                                         *)
(* Python values are encoded uniformly as records [k, items, obj]:         *)
(*   None          k = "none"                                              *)
(*   str / int     k = "str" / "int", items = <<text>>                     *)
(*   list of str   k = "list", items = the elements                        *)
(*   dict          k = "obj",  obj = function from keys to values          *)
(* A dict that is used as a mapping (raw parameter map, values map) is a   *)
(* TLA+ function from a finite set of strings to values.                   *)
(* An error record is [type, loc, pos, msg, ctx]; the Python location is   *)
(* the tuple loc \o pos (pos holds the integer part of a location, which   *)
(* only the JSON decode error has).                                        *)
(***************************************************************************)
EXTENDS Integers, Sequences, FiniteSets, TLC

\* Longest multi-valued raw parameter (list of strings) that is enumerated.
MaxList == 2

APPLICATION_JSON_CONTENT_TYPE == "application/json"
APPLICATION_FORM_CONTENT_TYPE == "application/x-www-form-urlencoded"

----------------------------------------------------------------------------
(* Values *)

EmptyMap == << >>
None == [k |-> "none", items |-> << >>, obj |-> EmptyMap]
StrV(a) == [k |-> "str", items |-> <<a>>, obj |-> EmptyMap]
IntV(a) == [k |-> "int", items |-> <<a>>, obj |-> EmptyMap]
ListV(s) == [k |-> "list", items |-> s, obj |-> EmptyMap]
ObjV(m) == [k |-> "obj", items |-> << >>, obj |-> m]

\* dict.get(key): None when the key is absent
Get(m, key) == IF key \in DOMAIN m THEN m[key] ELSE None

\* d[key] = v on a dict
Put(m, key, v) == (key :> v) @@ m

\* a.update(b): the entries of b win
Update(a, b) == b @@ a

----------------------------------------------------------------------------
(* Field descriptors (ModelField + its field_info) *)

\* shape: "scalar" | "seq" | "model"; ty: "str" | "int" (scalar type);
\* sub: the fields of the pydantic model of a "model" field;
\* by_name: model_config has validate_by_name or populate_by_name.
Field(name, alias, in_, required, default, shape, ty, embed, sub, by_name) ==
    [name |-> name, alias |-> alias, in_ |-> in_, required |-> required,
     default |-> default, shape |-> shape, ty |-> ty, embed |-> embed,
     sub |-> sub, by_name |-> by_name]

Scalar(name, alias, in_, required, default, ty, embed) ==
    Field(name, alias, in_, required, default, "scalar", ty, embed, << >>, FALSE)

SeqField(name, alias, in_, required) ==
    Field(name, alias, in_, required, ListV(<< >>), "seq", "str", TRUE, << >>, FALSE)

SubField(name, alias, shape, required) ==
    [name |-> name, alias |-> alias, shape |-> shape, required |-> required]

ModelParam(name, alias, in_, required, sub, by_name) ==
    Field(name, alias, in_, required, ObjV(EmptyMap), "model", "str", FALSE, sub, by_name)

\* compat.field_annotation_is_sequence(field_info.annotation)
field_annotation_is_sequence(field_info) == field_info.shape = "seq"

\* dependant.is_scalar_field(param)
is_scalar_field(param) == param.shape = "scalar"

\* lenient_issubclass(param.field_info.annotation, BaseModel)
is_model_field(param) == param.shape = "model"

\* compat.get_missing_field_error(loc)
get_missing_field_error(loc) ==
    [type |-> "missing", loc |-> loc, pos |-> << >>, msg |-> "Field required", ctx |-> ""]

TypeError(type, loc) ==
    [type |-> type, loc |-> loc, pos |-> << >>, msg |-> "Input should be valid", ctx |-> ""]

Numeric == {"7", "10"}

RECURSIVE SubErrors(_, _, _)
SubErrors(sub, value, loc) ==
    IF sub = << >> THEN << >>
    ELSE (IF Head(sub).required /\ Head(sub).alias \notin DOMAIN value.obj
          THEN <<get_missing_field_error(loc \o <<Head(sub).alias>>)>>
          ELSE << >>) \o SubErrors(Tail(sub), value, loc)

\* ModelField.validate(value, loc=loc): (validated value, list of errors)
validate(field, value, loc) ==
    CASE field.shape = "seq" ->
            IF value.k = "list" THEN [value |-> value, errors |-> << >>]
            ELSE [value |-> None, errors |-> <<TypeError("list_type", loc)>>]
      [] field.shape = "model" ->
            IF value.k = "obj"
            THEN [value |-> value, errors |-> SubErrors(field.sub, value, loc)]
            ELSE [value |-> None, errors |-> <<TypeError("model_attributes_type", loc)>>]
      [] field.shape = "scalar" /\ field.ty = "str" ->
            IF value.k = "str" THEN [value |-> value, errors |-> << >>]
            ELSE [value |-> None, errors |-> <<TypeError("string_type", loc)>>]
      [] OTHER ->
            IF value.k = "int" THEN [value |-> value, errors |-> << >>]
            ELSE IF value.k = "str" /\ value.items[1] \in Numeric
                 THEN [value |-> IntV(value.items[1]), errors |-> << >>]
            ELSE IF value.k = "str"
                 THEN [value |-> None, errors |-> <<TypeError("int_parsing", loc)>>]
            ELSE [value |-> None, errors |-> <<TypeError("int_type", loc)>>]

\* compat._regenerate_error_with_loc(errors, loc_prefix): prefix every location
regenerate_error_with_loc(errors, loc_prefix) ==
    [i \in 1..Len(errors) |-> [errors[i] EXCEPT !.loc = loc_prefix \o @]]

\* compat._normalize_errors(errors): the canonical record of every error, in order
normalize_errors(errors) ==
    [i \in 1..Len(errors) |->
        [type |-> errors[i].type, loc |-> errors[i].loc, pos |-> errors[i].pos,
         msg |-> errors[i].msg, ctx |-> errors[i].ctx]]

----------------------------------------------------------------------------
(* Field-level helpers of the binder *)

\* _validate_field: the validated value, the error list extended
validate_field(field, value, loc, existing_errors) ==
    LET r == validate(field, value, loc)
    IN  [value |-> r.value,
         errors |-> existing_errors \o regenerate_error_with_loc(r.errors, << >>)]

\* mutant: the two branches exchanged
handle_missing_field_value_swapped(field, acc, loc) ==
    IF field.required
    THEN [acc EXCEPT !.values = Put(@, field.name, field.default)]
    ELSE [acc EXCEPT !.errors = Append(@, get_missing_field_error(loc))]

\* _handle_missing_field_value, on the accumulator [values, errors, calls]
handle_missing_field_value(field, acc, loc) ==
    IF field.required
    THEN [acc EXCEPT !.errors = Append(@, get_missing_field_error(loc))]
    ELSE [acc EXCEPT !.values = Put(@, field.name, field.default)]

\* mutant: the value is never unwrapped
normalize_field_value_as_is(value, field_info) == value

\* _normalize_field_value
normalize_field_value(value, field_info) ==
    IF field_annotation_is_sequence(field_info) THEN value
    ELSE IF value.k = "list" /\ Len(value.items) > 0 THEN StrV(value.items[1])
    ELSE value

\* mutant: the value is stored under the alias
Validated_by_alias(field, value, loc, acc) ==
    LET r == validate_field(field, value, loc, acc.errors)
    IN  [values |-> Put(acc.values, field.alias, r.value),
         errors |-> r.errors,
         calls |-> Append(acc.calls, [loc |-> loc, value |-> value])]

\* the accumulator after validating one present value (lines 342 and 373);
\* calls records what reached the validator
Validated(field, value, loc, acc) ==
    LET r == validate_field(field, value, loc, acc.errors)
    IN  [values |-> Put(acc.values, field.name, r.value),
         errors |-> r.errors,
         calls |-> Append(acc.calls, [loc |-> loc, value |-> value])]

EmptyAcc == [values |-> EmptyMap, errors |-> << >>, calls |-> << >>]

----------------------------------------------------------------------------
(* Parameter normalizer *)

\* mutant: the entry is read with get and written back, also when absent
process_scalar_param_get(input_dict, param) ==
    LET value == Get(input_dict, param.alias)
    IN  Put(input_dict, param.alias,
            IF value.k = "list" /\ Len(value.items) = 1 THEN StrV(value.items[1]) ELSE value)

\* _process_scalar_param: a one-element list becomes its element
process_scalar_param(input_dict, param) ==
    IF param.alias \in DOMAIN input_dict
       /\ input_dict[param.alias].k = "list"
       /\ Len(input_dict[param.alias].items) = 1
    THEN Put(input_dict, param.alias, StrV(input_dict[param.alias].items[1]))
    ELSE input_dict

\* mutant: the name is tried whatever the configuration of the model says
get_param_value_any_name(input_dict, field_alias, field_name, by_name) ==
    IF Get(input_dict, field_alias) # None THEN Get(input_dict, field_alias)
    ELSE Get(input_dict, field_name)

\* _get_param_value: by alias, then by name when the model allows it
get_param_value(input_dict, field_alias, field_name, by_name) ==
    IF Get(input_dict, field_alias) # None THEN Get(input_dict, field_alias)
    ELSE IF by_name THEN Get(input_dict, field_name)
    ELSE None

\* the model_data dict built by the loop of _process_model_param
model_data(input_dict, param) ==
    LET found == {i \in 1..Len(param.sub) :
                    get_param_value(input_dict, param.sub[i].alias,
                                    param.sub[i].name, param.by_name) # None}
        idx(a) == CHOOSE i \in found :
                    /\ param.sub[i].alias = a
                    /\ \A j \in found : param.sub[j].alias = a => j <= i
    IN  [a \in {param.sub[i].alias : i \in found} |->
            normalize_field_value(
                get_param_value(input_dict, a, param.sub[idx(a)].name, param.by_name),
                param.sub[idx(a)])]

\* mutant: the flat entries that were read are removed from the map
process_model_param_pop(input_dict, param) ==
    LET read == {k \in DOMAIN input_dict :
                    \E j \in 1..Len(param.sub) : k \in {param.sub[j].alias, param.sub[j].name}}
    IN  Put([k \in DOMAIN input_dict \ read |-> input_dict[k]], param.alias,
            ObjV(model_data(input_dict, param)))

\* _process_model_param: the nested object is stored under the parameter's alias
process_model_param(input_dict, param) ==
    Put(input_dict, param.alias, ObjV(model_data(input_dict, param)))

\* mutant: one-element lists are unwrapped for sequence parameters too
RECURSIVE normalize_from_every_param(_, _, _)
normalize_from_every_param(input_dict, params, i) ==
    IF i > Len(params) THEN input_dict
    ELSE normalize_from_every_param(
            IF is_model_field(params[i]) THEN process_model_param(input_dict, params[i])
            ELSE process_scalar_param(input_dict, params[i]),
            params, i + 1)

\* _normalize_multi_params: params i..Len(params) applied in order
RECURSIVE normalize_from(_, _, _)
normalize_from(input_dict, params, i) ==
    IF i > Len(params) THEN input_dict
    ELSE normalize_from(
            IF is_scalar_field(params[i]) THEN process_scalar_param(input_dict, params[i])
            ELSE IF is_model_field(params[i]) THEN process_model_param(input_dict, params[i])
            ELSE input_dict,
            params, i + 1)

normalize_multi_params(input_dict, params) == normalize_from(input_dict, params, 1)

----------------------------------------------------------------------------
(* Path, query and header parameters *)

\* mutant: the test is on the key, not on the value
params_step_key_test(field, received_params, acc) ==
    LET loc == <<field.in_, field.alias>>
    IN  IF field.alias \notin DOMAIN received_params
        THEN handle_missing_field_value(field, acc, loc)
        ELSE Validated(field, received_params[field.alias], loc, acc)

\* one iteration of the loop of _request_params_to_args (lines 327-342)
params_step(field, received_params, acc) ==
    LET loc == <<field.in_, field.alias>>
        value == Get(received_params, field.alias)
    IN  IF value = None THEN handle_missing_field_value(field, acc, loc)
        ELSE Validated(field, value, loc, acc)

RECURSIVE params_loop(_, _, _, _)
params_loop(required_params, received_params, i, acc) ==
    IF i > Len(required_params) THEN acc
    ELSE params_loop(required_params, received_params, i + 1,
                     params_step(required_params[i], received_params, acc))

\* _request_params_to_args
request_params_to_args(required_params, received_params) ==
    params_loop(required_params, received_params, 1, EmptyAcc)

----------------------------------------------------------------------------
(* Body parameters *)

\* mutant: embed is not consulted
get_embed_body_ignoring_embed(field, required_params, received_body) ==
    LET field_alias_omitted == Len(required_params) = 1
    IN  [body |-> IF field_alias_omitted
                  THEN ObjV(field.alias :> received_body)
                  ELSE received_body,
         omitted |-> field_alias_omitted]

\* _get_embed_body: (received body, field_alias_omitted)
get_embed_body(field, required_params, received_body) ==
    LET field_alias_omitted == Len(required_params) = 1 /\ ~field.embed
    IN  [body |-> IF field_alias_omitted
                  THEN ObjV(field.alias :> received_body)
                  ELSE received_body,
         omitted |-> field_alias_omitted]

\* mutant: the alias is part of the location in both cases
get_body_field_location_with_alias(field, field_alias_omitted) == <<"body", field.alias>>

\* _get_body_field_location
get_body_field_location(field, field_alias_omitted) ==
    IF field_alias_omitted THEN <<"body">> ELSE <<"body", field.alias>>

\* _extract_field_value_from_body: the value and the error list; a body
\* that is not a dict has no get (AttributeError)
extract_field_value_from_body(field, received_body, loc, errors) ==
    IF received_body = None THEN [value |-> None, errors |-> errors]
    ELSE IF received_body.k = "obj"
         THEN [value |-> Get(received_body.obj, field.alias), errors |-> errors]
    ELSE [value |-> None, errors |-> Append(errors, get_missing_field_error(loc))]

\* one iteration of the loop of _request_body_to_args (lines 364-373)
body_step(field, received_body, field_alias_omitted, acc) ==
    LET loc == get_body_field_location(field, field_alias_omitted)
        x == extract_field_value_from_body(field, received_body, loc, acc.errors)
        acc1 == [acc EXCEPT !.errors = x.errors]
    IN  IF x.value = None THEN handle_missing_field_value(field, acc1, loc)
        ELSE Validated(field, normalize_field_value(x.value, field), loc, acc1)

RECURSIVE body_loop(_, _, _, _, _)
body_loop(required_params, received_body, field_alias_omitted, i, acc) ==
    IF i > Len(required_params) THEN acc
    ELSE body_loop(required_params, received_body, field_alias_omitted, i + 1,
                   body_step(required_params[i], received_body, field_alias_omitted, acc))

\* _request_body_to_args
request_body_to_args(required_params, received_body) ==
    LET e == get_embed_body(required_params[1], required_params, received_body)
    IN  body_loop(required_params, e.body, e.omitted, 1, EmptyAcc)

----------------------------------------------------------------------------
(* Body extraction *)

\* A content type is the sequence of the pieces of its text, so that
\* strip and startswith can be computed: <<" ", "application/json">> is
\* the text " application/json".
RECURSIVE lstrip(_)
lstrip(ct) == IF ct # << >> /\ Head(ct) = " " THEN lstrip(Tail(ct)) ELSE ct

RECURSIVE rstrip(_)
rstrip(ct) ==
    IF ct # << >> /\ ct[Len(ct)] = " " THEN rstrip(SubSeq(ct, 1, Len(ct) - 1)) ELSE ct

\* str.strip()
strip(ct) == rstrip(lstrip(ct))

\* str.startswith(prefix), for a prefix that is one piece
startswith(ct, prefix) == ct # << >> /\ Head(ct) = prefix

NoException == [kind |-> "none", errors |-> << >>, body |-> None, source |-> ""]

\* RequestValidationError(errors, body=body)
RequestValidationError(errs, body) ==
    [kind |-> "RequestValidationError", errors |-> errs, body |-> body, source |-> ""]

NotImplementedError ==
    [kind |-> "NotImplementedError", errors |-> << >>, body |-> None, source |-> ""]

JsonOk(v) == [ok |-> TRUE, value |-> v, pos |-> 0, msg |-> ""]
JsonError(pos, msg) == [ok |-> FALSE, value |-> None, pos |-> pos, msg |-> msg]

\* json.loads on the request documents of the model
json_loads(doc) ==
    CASE doc = "{\"name\": \"x\"}" -> JsonOk(ObjV("name" :> StrV("x")))
      [] doc = "{}" -> JsonOk(ObjV(EmptyMap))
      [] doc = "[\"x\"]" -> JsonOk(ListV(<<"x">>))
      [] doc = "{\"name\": null}" -> JsonOk(ObjV("name" :> None))
      [] doc = "null" -> JsonOk(None)
      [] doc = "{\"name\": [\"x\", \"7\"]}" -> JsonOk(ObjV("name" :> ListV(<<"x", "7">>)))
      [] doc = "{\"name\": \"x\", \"tags\": [\"x\"]}" ->
            JsonOk(ObjV(("name" :> StrV("x")) @@ ("tags" :> ListV(<<"x">>))))
      [] doc = "{\"name\": \"x\", \"note\": \"7\"}" ->
            JsonOk(ObjV(("name" :> StrV("x")) @@ ("note" :> StrV("7"))))
      [] doc = "{\"name\"" -> JsonError(7, "Expecting ':' delimiter")
      [] OTHER -> JsonError(0, "Expecting value")

\* BaseProxyEvent.json_body: an empty body is None, anything else is decoded
json_body(doc) == IF doc = "" THEN JsonOk(None) ELSE json_loads(doc)

\* the name=value pairs of a document, split at "&" and at the first "="
form_pairs(doc) ==
    CASE doc = "" -> << >>
      [] doc = "name=x" -> << <<"name", "x">> >>
      [] doc = "name=x&name=7" -> << <<"name", "x">>, <<"name", "7">> >>
      [] doc = "name=" -> << <<"name", "">> >>
      [] doc = "tags=x&name=7" -> << <<"tags", "x">>, <<"name", "7">> >>
      [] doc = "tags=x&tags=7" -> << <<"tags", "x">>, <<"tags", "7">> >>
      [] OTHER -> << <<doc, "">> >>

\* urllib.parse.parse_qs(body, keep_blank_values=...): key -> list of values
RECURSIVE parse_pairs(_, _)
parse_pairs(pairs, keep_blank_values) ==
    IF pairs = << >> THEN EmptyMap
    ELSE LET n == Len(pairs)
             m == parse_pairs(SubSeq(pairs, 1, n - 1), keep_blank_values)
             key == pairs[n][1]
             v == pairs[n][2]
         IN  IF v = "" /\ ~keep_blank_values THEN m
             ELSE IF key \in DOMAIN m
                  THEN Put(m, key, ListV(Append(m[key].items, v)))
                  ELSE Put(m, key, ListV(<<v>>))

parse_qs(doc, keep_blank_values) == parse_pairs(form_pairs(doc), keep_blank_values)

Returned(v) == [kind |-> "ok", body |-> v, exc |-> NoException]
Raised(exc) == [kind |-> "raise", body |-> None, exc |-> exc]

\* mutant: the location is ("body",) and the raw text is not attached
parse_json_data_no_position(doc) ==
    LET r == json_body(doc)
    IN  IF r.ok THEN Returned(r.value)
        ELSE Raised(RequestValidationError(
                << [type |-> "json_invalid", loc |-> <<"body">>, pos |-> << >>,
                    msg |-> "JSON decode error", ctx |-> r.msg] >>,
                None))

\* _parse_json_data
parse_json_data(doc) ==
    LET r == json_body(doc)
    IN  IF r.ok THEN Returned(r.value)
        ELSE Raised(RequestValidationError(
                << [type |-> "json_invalid", loc |-> <<"body">>, pos |-> <<r.pos>>,
                    msg |-> "JSON decode error", ctx |-> r.msg] >>,
                StrV(doc)))

\* _parse_form_data
parse_form_data(doc) == Returned(ObjV(parse_qs(doc, TRUE)))

\* mutant: the content type is compared, not its beginning
get_body_exact_match(content_type_header, doc) ==
    LET content_type == strip(content_type_header)
    IN  IF content_type = << >> \/ content_type = <<APPLICATION_JSON_CONTENT_TYPE>>
        THEN parse_json_data(doc)
        ELSE IF content_type = <<APPLICATION_FORM_CONTENT_TYPE>>
        THEN parse_form_data(doc)
        ELSE Raised(NotImplementedError)

\* _get_body
get_body(content_type_header, doc) ==
    LET content_type == strip(content_type_header)
    IN  IF content_type = << >> \/ startswith(content_type, APPLICATION_JSON_CONTENT_TYPE)
        THEN parse_json_data(doc)
        ELSE IF startswith(content_type, APPLICATION_FORM_CONTENT_TYPE)
        THEN parse_form_data(doc)
        ELSE Raised(NotImplementedError)

----------------------------------------------------------------------------
(* Response validation: OpenAPIResponseValidationMiddleware *)

\* ResponseValidationError(errors=errors, body=body, source=source)
ResponseValidationError(errs, body, source) ==
    [kind |-> "ResponseValidationError", errors |-> errs, body |-> body, source |-> source]

\* what jsonable_encoder raises for a value it cannot convert
SerializationError ==
    [kind |-> "SerializationError", errors |-> << >>, body |-> None, source |-> ""]

\* an object of a class the general conversion does not know
CustomV == [k |-> "custom", items |-> << >>, obj |-> EmptyMap]

\* route.dependant.return_param is None: no return schema declared
NoField == Field("", "", "", FALSE, None, "none", "", FALSE, << >>, FALSE)

\* bool(value), as in "if response.body"
truthy(v) ==
    CASE v.k = "none" -> FALSE
      [] v.k = "str" -> v.items[1] # ""
      [] v.k = "int" -> v.items[1] # "0"
      [] v.k = "list" -> v.items # << >>
      [] v.k = "obj" -> DOMAIN v.obj # {}
      [] OTHER -> TRUE

\* jsonable_encoder(value, custom_serializer=...): primitives as they are,
\* mappings and sequences element by element, an object of an unknown class
\* through the custom serializer when there is one
jsonable_encoder(v, custom_serializer) ==
    CASE v.k = "custom" ->
            IF custom_serializer THEN Returned(StrV("custom")) ELSE Raised(SerializationError)
      [] v.k = "obj" -> Returned(ObjV([key \in DOMAIN v.obj |-> v.obj[key]]))
      [] v.k = "list" -> Returned(ListV([i \in 1..Len(v.items) |-> v.items[i]]))
      [] OTHER -> Returned(v)

\* the validated value of a model-typed field is an instance of the model:
\* it holds the declared fields, keys that are not declared are ignored
model_instance(field, value) ==
    IF field.shape = "model" /\ value.k = "obj"
    THEN ObjV([a \in DOMAIN value.obj \cap {field.sub[j].alias : j \in 1..Len(field.sub)} |->
                 value.obj[a]])
    ELSE value

\* field.serialize(value, by_alias=True, ...): the value dumped by alias
field_serialize(field, value) == model_instance(field, value)

\* mutant: the flag of the application is consulted before the route's
serialize_response_app_first(self, field, serializable, response_content, has_route_custom_response_validation) ==
    IF field # NoField
    THEN LET r == validate_field(field, response_content, <<"response">>, << >>)
             value == model_instance(field, r.value)
         IN  IF r.errors # << >>
             THEN IF self.has_response_validation_error
                  THEN Raised(ResponseValidationError(normalize_errors(r.errors),
                                                      response_content, "app"))
                  ELSE IF has_route_custom_response_validation
                  THEN Raised(ResponseValidationError(normalize_errors(r.errors),
                                                      response_content, "route"))
                  ELSE Raised(RequestValidationError(normalize_errors(r.errors),
                                                     response_content))
             ELSE IF serializable THEN Returned(field_serialize(field, value))
             ELSE jsonable_encoder(value, self.validation_serializer)
    ELSE jsonable_encoder(response_content, self.validation_serializer)

\* mutant: without custom flag the failure is a response-validation error
serialize_response_never_request(self, field, serializable, response_content, has_route_custom_response_validation) ==
    IF field # NoField
    THEN LET r == validate_field(field, response_content, <<"response">>, << >>)
             value == model_instance(field, r.value)
         IN  IF r.errors # << >>
             THEN IF has_route_custom_response_validation
                  THEN Raised(ResponseValidationError(normalize_errors(r.errors),
                                                      response_content, "route"))
                  ELSE Raised(ResponseValidationError(normalize_errors(r.errors),
                                                      response_content, "app"))
             ELSE IF serializable THEN Returned(field_serialize(field, value))
             ELSE jsonable_encoder(value, self.validation_serializer)
    ELSE jsonable_encoder(response_content, self.validation_serializer)

\* mutant: the value is validated as a string when no schema is declared
serialize_response_always_validating(self, field, serializable, response_content, has_route_custom_response_validation) ==
    LET f == IF field # NoField THEN field
             ELSE Scalar("return", "return", "", TRUE, None, "str", FALSE)
        r == validate_field(f, response_content, <<"response">>, << >>)
        value == model_instance(f, r.value)
    IN  IF r.errors # << >>
        THEN IF has_route_custom_response_validation
             THEN Raised(ResponseValidationError(normalize_errors(r.errors),
                                                 response_content, "route"))
             ELSE IF self.has_response_validation_error
             THEN Raised(ResponseValidationError(normalize_errors(r.errors),
                                                 response_content, "app"))
             ELSE Raised(RequestValidationError(normalize_errors(r.errors), response_content))
        ELSE IF serializable THEN Returned(field_serialize(f, value))
        ELSE jsonable_encoder(value, self.validation_serializer)

\* _serialize_response; serializable: the field has a serialize method
serialize_response(self, field, serializable, response_content, has_route_custom_response_validation) ==
    IF field # NoField
    THEN LET r == validate_field(field, response_content, <<"response">>, << >>)
             value == model_instance(field, r.value)
         IN  IF r.errors # << >>
             THEN IF has_route_custom_response_validation
                  THEN Raised(ResponseValidationError(normalize_errors(r.errors),
                                                      response_content, "route"))
                  ELSE IF self.has_response_validation_error
                  THEN Raised(ResponseValidationError(normalize_errors(r.errors),
                                                      response_content, "app"))
                  ELSE Raised(RequestValidationError(normalize_errors(r.errors),
                                                     response_content))
             ELSE IF serializable THEN Returned(field_serialize(field, value))
             ELSE jsonable_encoder(value, self.validation_serializer)
    ELSE jsonable_encoder(response_content, self.validation_serializer)

\* the return schemas that are enumerated: none, str, int, List[str], a model
ReturnFields ==
    {NoField,
     Scalar("return", "return", "", TRUE, None, "str", FALSE),
     Scalar("return", "return", "", TRUE, None, "int", FALSE),
     SeqField("return", "return", "", TRUE),
     ModelParam("return", "return", "", TRUE,
                <<SubField("lo", "min", "scalar", TRUE), SubField("hi", "hi", "scalar", FALSE)>>,
                FALSE)}

\* custom_response_validation_http_code of a route: None or a status code
ResponseCodes == {None, IntV("422")}

\* the values a route handler returns
ResponseBodies ==
    {None, StrV(""), StrV("x"), StrV("7"), IntV("0"), IntV("7"), ListV(<< >>), ListV(<<"x">>),
     ObjV(EmptyMap), ObjV("min" :> StrV("7")), ObjV("hi" :> StrV("x")),
     ObjV(("min" :> StrV("7")) @@ ("extra" :> StrV("x"))), CustomV}

\* before the route handler has returned
NoResponse == [body |-> None, is_json |-> FALSE]

----------------------------------------------------------------------------
(* Routes and requests that are enumerated *)

Atoms == {"7", "x"}

\* lists of 1..MaxList strings: a first element followed by copies of a second
Lists ==
    {[i \in 1..n |-> IF i = 1 THEN a ELSE b] : <<a, b, n>> \in Atoms \X Atoms \X (1..MaxList)}

\* raw query / header values: a string or a list of strings
RawVals == {StrV(a) : a \in Atoms} \cup {ListV(l) : l \in Lists}

\* all dicts with keys among keys and values among vals
Maps(keys, vals) == UNION {[K -> vals] : K \in SUBSET keys}

NoParams == << >>

\* query "limit": int = 10, body "name": str (embedded in the body or not)
ExampleRoute(embed) ==
    [id |-> IF embed THEN "example_embed" ELSE "example",
     path |-> NoParams,
     query |-> <<Scalar("limit", "limit", "query", FALSE, IntV("10"), "int", FALSE)>>,
     header |-> NoParams,
     body |-> <<Scalar("name", "name", "body", TRUE, None, "str", embed)>>]

\* one field in each of path, query and header, two body fields
MultiRoute ==
    [id |-> "multi",
     path |-> <<Scalar("item_id", "id", "path", TRUE, None, "int", FALSE)>>,
     query |-> <<Scalar("q", "q", "query", TRUE, None, "str", FALSE)>>,
     header |-> <<Scalar("h", "x-h", "header", FALSE, StrV("d"), "str", FALSE)>>,
     body |-> <<Scalar("name", "name", "body", TRUE, None, "str", FALSE),
                Scalar("note", "note", "body", FALSE, StrV("d"), "str", FALSE)>>]

\* form fields: a sequence and a scalar; a sequence query parameter
FormRoute ==
    [id |-> "form",
     path |-> NoParams,
     query |-> <<SeqField("labels", "label", "query", FALSE)>>,
     header |-> NoParams,
     body |-> <<SeqField("tags", "tags", "body", TRUE),
                Scalar("name", "name", "body", FALSE, StrV("d"), "str", TRUE)>>]

\* no body field
NoBodyRoute ==
    [id |-> "nobody",
     path |-> NoParams,
     query |-> <<Scalar("q", "q", "query", TRUE, None, "str", FALSE)>>,
     header |-> <<Scalar("h", "x-h", "header", TRUE, None, "int", FALSE)>>,
     body |-> NoParams]

\* a pydantic model as query parameter: fields lo (alias "min") and hi
ModelRoute(by_name) ==
    [id |-> IF by_name THEN "model_by_name" ELSE "model",
     path |-> NoParams,
     query |-> <<ModelParam("flt", "flt", "query", TRUE,
                            <<SubField("lo", "min", "scalar", TRUE),
                              SubField("hi", "hi", "scalar", FALSE)>>, by_name)>>,
     header |-> NoParams,
     body |-> NoParams]

Routes == {ExampleRoute(TRUE), ExampleRoute(FALSE), MultiRoute, FormRoute, NoBodyRoute,
           ModelRoute(TRUE), ModelRoute(FALSE)}

Aliases(params) == {params[i].alias : i \in 1..Len(params)}
Names(params) == {params[i].name : i \in 1..Len(params)}

\* the keys a raw query / header map may hold for a parameter list:
\* the aliases, and the sub-field aliases and names of model parameters
RawKeys(params) ==
    UNION {IF params[i].shape = "model"
           THEN UNION {{params[i].sub[j].alias, params[i].sub[j].name} :
                         j \in 1..Len(params[i].sub)}
           ELSE {params[i].alias} : i \in 1..Len(params)}

\* path arguments are the strings matched by the route's pattern
PathArgs(params) == Maps(Aliases(params), {StrV(a) : a \in Atoms})

Docs == {"", "{\"name\": \"x\"}", "{}", "[\"x\"]", "{\"name\": null}", "{\"name\"",
         "{\"name\": [\"x\", \"7\"]}", "{\"name\": \"x\", \"tags\": [\"x\"]}",
         "{\"name\": \"x\", \"note\": \"7\"}",
         "name=x", "name=x&name=7", "name=", "tags=x&name=7", "tags=x&tags=7"}

ContentTypes == {<< >>, <<APPLICATION_JSON_CONTENT_TYPE>>,
                 <<" ", APPLICATION_JSON_CONTENT_TYPE, "; charset=utf-8">>,
                 <<APPLICATION_FORM_CONTENT_TYPE>>,
                 <<APPLICATION_FORM_CONTENT_TYPE, "; charset=utf-8", " ">>,
                 <<"text/plain">>, <<"multipart/form-data">>}

----------------------------------------------------------------------------
(* OpenAPIRequestValidationMiddleware.handler as a state machine *)

VARIABLES
    route,          \* app.context["_route"]: the parameter lists of the route
    route_args,     \* app.context["_route_args"]
    query_params,   \* app.current_event.resolved_query_string_parameters
    headers_field,  \* app.current_event.resolved_headers_field
    content_type,   \* app.current_event.headers.get("content-type", "")
    decoded_body,   \* app.current_event.decoded_body
    pc,             \* position in handler
    path_r,         \* path_values, path_errors (and the validator's inputs)
    query_r,        \* query_values, query_errors
    header_r,       \* header_values, header_errors
    received_body,  \* what _get_body returned (NotRead before that)
    body_r,         \* body_values, body_errors
    values,         \* the local values
    errors,         \* the local errors
    raised,         \* the exception that left handler, if any
    next_calls,     \* how often next_middleware was called
    received,       \* history: the raw path, query and header maps as received
    n_params,       \* normalizer alone: the declared parameters
    n_input,        \* normalizer alone: the raw map
    n_once,         \* normalizer alone: the map normalized once
    n_twice,        \* normalizer alone: the map normalized twice
    n_returned,     \* normalizer alone: the mapping the first call returned
    n_pc,           \* normalizer alone: "raw", "once", "twice" ("off" in Spec)
    r_self,         \* response middleware: the fields set by __init__
    r_route,        \* response middleware: return_param and response code of the route
    r_content,      \* response middleware: the response as next_middleware returned it
    r_response,     \* response middleware: the response object
    r_pc,           \* response middleware: position in handler ("off" in Spec)
    r_raised,       \* response middleware: the exception that left handler, if any
    r_next_calls,   \* response middleware: how often next_middleware was called
    c_req,          \* two requests: each request as received
    c_app,          \* two requests: the context and the event's maps of each app
    c_frame,        \* two requests: the local variables of the invocations
    c_pc,           \* two requests: the position of each invocation
    c_out           \* two requests: exception raised, calls of the next middleware

vars == <<route, route_args, query_params, headers_field, content_type, decoded_body,
          pc, path_r, query_r, header_r, received_body, body_r, values, errors, raised,
          next_calls, received, n_params, n_input, n_once, n_twice, n_returned,
          n_pc,
          r_self, r_route, r_content, r_response, r_pc, r_raised, r_next_calls,
          c_req, c_app, c_frame, c_pc, c_out>>

norm_vars == <<n_params, n_input, n_once, n_twice, n_returned, n_pc>>
resp_vars == <<r_self, r_route, r_content, r_response, r_pc, r_raised, r_next_calls>>
conc_vars == <<c_req, c_app, c_frame, c_pc, c_out>>
handler_vars == <<route, route_args, query_params, headers_field, content_type, decoded_body,
                  pc, path_r, query_r, header_r, received_body, body_r, values, errors,
                  raised, next_calls, received>>
request == <<route, content_type, decoded_body, received, norm_vars, resp_vars, conc_vars>>
locals == <<path_r, query_r, header_r, received_body, body_r, values, errors>>

NotRead == [k |-> "unset", items |-> << >>, obj |-> EmptyMap]

HasModelParam(params) == \E i \in 1..Len(params) : params[i].shape = "model"

\* no second request is part of the run
ConcOff ==
    /\ c_req = << >>
    /\ c_app = << >>
    /\ c_frame = << >>
    /\ c_pc = << >>
    /\ c_out = << >>

\* the response middleware is not part of the run
RespOff ==
    /\ r_self = [validation_serializer |-> FALSE, has_response_validation_error |-> FALSE]
    /\ r_route = [return_param |-> NoField, serializable |-> FALSE,
                  custom_response_validation_http_code |-> None]
    /\ r_content = NoResponse
    /\ r_response = NoResponse
    /\ r_pc = "off"
    /\ r_raised = NoException
    /\ r_next_calls = 0

Init ==
    /\ route \in Routes
    /\ route_args \in PathArgs(route.path)
    /\ query_params \in Maps(RawKeys(route.query), RawVals)
    /\ headers_field \in Maps(RawKeys(route.header), RawVals)
    /\ content_type \in (IF HasModelParam(route.query) THEN {<< >>} ELSE ContentTypes)
    /\ decoded_body \in (IF HasModelParam(route.query) THEN {""} ELSE Docs)
    /\ received = [args |-> route_args, query |-> query_params, headers |-> headers_field]
    /\ received_body = NotRead
    /\ pc = "start"
    /\ path_r = EmptyAcc
    /\ query_r = EmptyAcc
    /\ header_r = EmptyAcc
    /\ body_r = EmptyAcc
    /\ values = EmptyMap
    /\ errors = << >>
    /\ raised = NoException
    /\ next_calls = 0
    /\ n_params = NoParams
    /\ n_input = EmptyMap
    /\ n_once = EmptyMap
    /\ n_twice = EmptyMap
    /\ n_returned = EmptyMap
    /\ n_pc = "off"
    /\ RespOff
    /\ ConcOff

\* lines 64-67
BindPath ==
    /\ pc = "start"
    /\ path_r' = request_params_to_args(route.path, route_args)
    /\ pc' = "path"
    /\ UNCHANGED <<request, route_args, query_params, headers_field, query_r, header_r,
                   received_body, body_r, values, errors, raised, next_calls>>

\* lines 70-79: the query map is normalized in place, then bound
BindQuery ==
    /\ pc = "path"
    /\ query_params' = normalize_multi_params(query_params, route.query)
    /\ query_r' = request_params_to_args(route.query, query_params')
    /\ pc' = "query"
    /\ UNCHANGED <<request, route_args, headers_field, path_r, header_r, received_body,
                   body_r, values, errors, raised, next_calls>>

\* lines 82-91
BindHeaders ==
    /\ pc = "query"
    /\ headers_field' = normalize_multi_params(headers_field, route.header)
    /\ header_r' = request_params_to_args(route.header, headers_field')
    /\ pc' = "header"
    /\ UNCHANGED <<request, route_args, query_params, path_r, query_r, received_body,
                   body_r, values, errors, raised, next_calls>>

\* values.update(...) three times and errors += ... (lines 93-96)
merged_values(p, q, h) == Update(Update(Update(EmptyMap, p.values), q.values), h.values)
\* mutant: only the first source that has errors is reported
merged_errors_first_failing(p, q, h) ==
    IF p.errors # << >> THEN p.errors ELSE IF q.errors # << >> THEN q.errors ELSE h.errors

merged_errors(p, q, h) == p.errors \o q.errors \o h.errors

Merge ==
    /\ pc = "header"
    /\ values' = merged_values(path_r, query_r, header_r)
    /\ errors' = errors \o merged_errors(path_r, query_r, header_r)
    /\ pc' = "merged"
    /\ UNCHANGED <<request, route_args, query_params, headers_field, path_r, query_r,
                   header_r, received_body, body_r, raised, next_calls>>

\* line 99: the route has no body parameter
SkipBody ==
    /\ pc = "merged"
    /\ route.body = NoParams
    /\ pc' = "bound"
    /\ UNCHANGED <<request, route_args, query_params, headers_field, locals, raised,
                   next_calls>>

\* mutant: the failure of _get_body is merged with the errors collected so far
BodyRaises_aggregating ==
    /\ pc = "merged"
    /\ route.body # NoParams
    /\ get_body(content_type, decoded_body).kind = "raise"
    /\ raised' = RequestValidationError(
                    normalize_errors(errors) \o get_body(content_type, decoded_body).exc.errors,
                    get_body(content_type, decoded_body).exc.body)
    /\ pc' = "raised"
    /\ UNCHANGED <<request, route_args, query_params, headers_field, locals, next_calls>>

\* line 102: _get_body raises (undecodable JSON, unsupported content type)
\* mutant: the body is read whether or not the route declares a body field
BodyRaises_any_route ==
    /\ pc = "merged"
    /\ get_body(content_type, decoded_body).kind = "raise"
    /\ raised' = get_body(content_type, decoded_body).exc
    /\ pc' = "raised"
    /\ UNCHANGED <<request, route_args, query_params, headers_field, locals, next_calls>>

BodyRaises ==
    /\ pc = "merged"
    /\ route.body # NoParams
    /\ get_body(content_type, decoded_body).kind = "raise"
    /\ raised' = get_body(content_type, decoded_body).exc
    /\ pc' = "raised"
    /\ UNCHANGED <<request, route_args, query_params, headers_field, locals, next_calls>>

\* lines 100-105
BindBody ==
    /\ pc = "merged"
    /\ route.body # NoParams
    /\ get_body(content_type, decoded_body).kind = "ok"
    /\ received_body' = get_body(content_type, decoded_body).body
    /\ body_r' = request_body_to_args(route.body, received_body')
    /\ values' = Update(values, body_r'.values)
    /\ errors' = errors \o body_r'.errors
    /\ pc' = "bound"
    /\ UNCHANGED <<request, route_args, query_params, headers_field, path_r, query_r,
                   header_r, raised, next_calls>>

\* mutant: the arguments are rewritten before the errors are looked at
RaiseErrors_installing ==
    /\ pc = "bound"
    /\ errors # << >>
    /\ route_args' = values
    /\ raised' = RequestValidationError(normalize_errors(errors), None)
    /\ pc' = "raised"
    /\ UNCHANGED <<request, query_params, headers_field, locals, next_calls>>

\* lines 107-109
RaiseErrors ==
    /\ pc = "bound"
    /\ errors # << >>
    /\ raised' = RequestValidationError(normalize_errors(errors), None)
    /\ pc' = "raised"
    /\ UNCHANGED <<request, route_args, query_params, headers_field, locals, next_calls>>

\* line 112
Install ==
    /\ pc = "bound"
    /\ errors = << >>
    /\ route_args' = values
    /\ pc' = "installed"
    /\ UNCHANGED <<request, query_params, headers_field, locals, raised, next_calls>>

\* line 115
CallNext ==
    /\ pc = "installed"
    /\ next_calls' = next_calls + 1
    /\ pc' = "done"
    /\ UNCHANGED <<request, route_args, query_params, headers_field, locals, raised>>

Next ==
    \/ BindPath
    \/ BindQuery
    \/ BindHeaders
    \/ Merge
    \/ SkipBody
    \/ BodyRaises
    \/ BindBody
    \/ RaiseErrors
    \/ Install
    \/ CallNext

Spec == Init /\ [][Next]_vars

----------------------------------------------------------------------------
(* _normalize_multi_params applied to a map and again to its own output *)

\* Longest parameter list given to the normalizer alone.
MaxParams == 2

NormPool ==
    {Scalar("q", "q", "query", TRUE, None, "str", FALSE),
     SeqField("labels", "label", "query", FALSE),
     ModelParam("flt", "flt", "query", TRUE, <<SubField("lo", "min", "scalar", TRUE)>>, FALSE),
     ModelParam("flt", "flt", "query", TRUE, <<SubField("lo", "min", "scalar", TRUE)>>, TRUE),
     \* a model whose field has the alias of the parameter itself
     ModelParam("self", "self", "query", TRUE, <<SubField("self", "self", "scalar", TRUE)>>, FALSE),
     \* a model with a sequence field that has the alias of the scalar parameter
     ModelParam("m", "m", "query", TRUE, <<SubField("q", "q", "seq", TRUE)>>, FALSE),
     \* a model with a scalar field that has the alias of the scalar parameter
     ModelParam("k", "k", "query", TRUE, <<SubField("q", "q", "scalar", TRUE)>>, FALSE),
     \* a model, looked up by name, whose field is named like the parameter flt
     ModelParam("n", "n", "query", TRUE, <<SubField("flt", "f", "scalar", TRUE)>>, TRUE)}

\* lists of 1..MaxParams parameters with different aliases
ParamLists ==
    UNION {{l \in [1..n -> NormPool] : \A i, j \in 1..n : i # j => l[i].alias # l[j].alias} :
             n \in 1..MaxParams}

NormVals == {StrV("x"), ListV(<<"x">>), ListV(<<"x", "7">>)}

NormInit ==
    /\ route = NoBodyRoute
    /\ route_args = EmptyMap
    /\ query_params = EmptyMap
    /\ headers_field = EmptyMap
    /\ content_type = << >>
    /\ decoded_body = ""
    /\ received = [args |-> EmptyMap, query |-> EmptyMap, headers |-> EmptyMap]
    /\ received_body = NotRead
    /\ pc = "off"
    /\ path_r = EmptyAcc
    /\ query_r = EmptyAcc
    /\ header_r = EmptyAcc
    /\ body_r = EmptyAcc
    /\ values = EmptyMap
    /\ errors = << >>
    /\ raised = NoException
    /\ next_calls = 0
    /\ n_params \in ParamLists
    /\ n_input \in Maps(RawKeys(n_params), NormVals)
    /\ n_once = EmptyMap
    /\ n_twice = EmptyMap
    /\ n_returned = EmptyMap
    /\ n_pc = "raw"
    /\ RespOff
    /\ ConcOff

\* mutant: the work is done on a copy, the mapping given stays as it was
NormalizeOnce_on_copy ==
    /\ n_pc = "raw"
    /\ n_once' = n_input
    /\ n_returned' = normalize_multi_params(n_input, n_params)
    /\ n_pc' = "once"
    /\ UNCHANGED <<handler_vars, resp_vars, conc_vars, n_params, n_input, n_twice>>

\* one call: input_dict is changed in place and is what the call returns
NormalizeOnce ==
    /\ n_pc = "raw"
    /\ n_once' = normalize_multi_params(n_input, n_params)
    /\ n_returned' = n_once'
    /\ n_pc' = "once"
    /\ UNCHANGED <<handler_vars, resp_vars, conc_vars, n_params, n_input, n_twice>>

NormalizeAgain ==
    /\ n_pc = "once"
    /\ n_twice' = normalize_multi_params(n_once, n_params)
    /\ n_pc' = "twice"
    /\ UNCHANGED <<handler_vars, resp_vars, conc_vars, n_params, n_input, n_once, n_returned>>

NormNext == NormalizeOnce \/ NormalizeAgain

NormSpec == NormInit /\ [][NormNext]_vars

----------------------------------------------------------------------------
(* OpenAPIResponseValidationMiddleware.handler as a state machine *)

\* the request middleware and the normalizer are not part of the run
HandlerOff ==
    /\ route = NoBodyRoute
    /\ route_args = EmptyMap
    /\ query_params = EmptyMap
    /\ headers_field = EmptyMap
    /\ content_type = << >>
    /\ decoded_body = ""
    /\ received = [args |-> EmptyMap, query |-> EmptyMap, headers |-> EmptyMap]
    /\ received_body = NotRead
    /\ pc = "off"
    /\ path_r = EmptyAcc
    /\ query_r = EmptyAcc
    /\ header_r = EmptyAcc
    /\ body_r = EmptyAcc
    /\ values = EmptyMap
    /\ errors = << >>
    /\ raised = NoException
    /\ next_calls = 0

NormOff ==
    /\ n_params = NoParams
    /\ n_input = EmptyMap
    /\ n_once = EmptyMap
    /\ n_twice = EmptyMap
    /\ n_returned = EmptyMap
    /\ n_pc = "off"

\* __init__ (lines 201-202) and the route found at line 207
RespInit ==
    /\ HandlerOff
    /\ NormOff
    /\ r_self \in [validation_serializer : BOOLEAN, has_response_validation_error : BOOLEAN]
    /\ r_route \in [return_param : ReturnFields, serializable : BOOLEAN,
                     custom_response_validation_http_code : ResponseCodes]
    /\ r_content = NoResponse
    /\ r_response = NoResponse
    /\ r_pc = "start"
    /\ r_raised = NoException
    /\ r_next_calls = 0
    /\ ConcOff

\* line 210: the route handler runs and its result comes back as a response
RespCallNext ==
    /\ r_pc = "start"
    /\ \E body \in ResponseBodies, is_json \in BOOLEAN :
          /\ r_content' = [body |-> body, is_json |-> is_json]
          /\ r_response' = [body |-> body, is_json |-> is_json]
    /\ r_next_calls' = r_next_calls + 1
    /\ r_pc' = "called"
    /\ UNCHANGED <<handler_vars, norm_vars, conc_vars, r_self, r_route, r_raised>>

\* the call of line 218
serialized ==
    serialize_response(r_self, r_route.return_param, r_route.serializable, r_response.body,
                       r_route.custom_response_validation_http_code # None)

\* line 217 is false: the response is returned as it is (lines 213, 224)
ReturnResponse ==
    /\ r_pc = "called"
    /\ ~(truthy(r_response.body) /\ r_response.is_json)
    /\ r_pc' = "returned"
    /\ UNCHANGED <<handler_vars, norm_vars, conc_vars, r_self, r_route, r_content, r_response, r_raised,
                   r_next_calls>>

\* lines 217-224: the body is replaced by its serialization
RewriteResponse ==
    /\ r_pc = "called"
    /\ truthy(r_response.body) /\ r_response.is_json
    /\ serialized.kind = "ok"
    /\ r_response' = [r_response EXCEPT !.body = serialized.body]
    /\ r_pc' = "returned"
    /\ UNCHANGED <<handler_vars, norm_vars, conc_vars, r_self, r_route, r_content, r_raised, r_next_calls>>

\* mutant: the response is validated whatever its body and content type
ResponseRaises_ungated ==
    /\ r_pc = "called"
    /\ serialized.kind = "raise"
    /\ r_raised' = serialized.exc
    /\ r_pc' = "raised"
    /\ UNCHANGED <<handler_vars, norm_vars, conc_vars, r_self, r_route, r_content, r_response,
                   r_next_calls>>

\* lines 217-218: _serialize_response raises
ResponseRaises ==
    /\ r_pc = "called"
    /\ truthy(r_response.body) /\ r_response.is_json
    /\ serialized.kind = "raise"
    /\ r_raised' = serialized.exc
    /\ r_pc' = "raised"
    /\ UNCHANGED <<handler_vars, norm_vars, conc_vars, r_self, r_route, r_content, r_response,
                   r_next_calls>>

RespNext == RespCallNext \/ ReturnResponse \/ RewriteResponse \/ ResponseRaises

RespSpec == RespInit /\ [][RespNext]_vars

----------------------------------------------------------------------------
(* Two requests bound by the same middleware instances, steps interleaved *)

Procs == {1, 2}

\* a request with its app: the route found in the context, the raw inputs of
\* the event, and what the route handler returns
Request(r, args, query, hdrs, ct, doc, ret, code, body) ==
    [route |-> r, args |-> args, query |-> query, headers |-> hdrs,
     content_type |-> ct, doc |-> doc,
     ret |-> [return_param |-> ret, serializable |-> TRUE,
              custom_response_validation_http_code |-> code],
     response |-> [body |-> body, is_json |-> TRUE]]

IntReturn == Scalar("return", "return", "", TRUE, None, "int", FALSE)

ConcRequests ==
    {\* binds, and returns what the schema declares
     Request(MultiRoute, "id" :> StrV("7"), "q" :> ListV(<<"x">>), EmptyMap,
             <<APPLICATION_JSON_CONTENT_TYPE>>, "{\"name\": \"x\"}", IntReturn, None, StrV("7")),
     \* errors in path, query and body
     Request(MultiRoute, "id" :> StrV("x"), EmptyMap, "x-h" :> ListV(<<"x">>),
             << >>, "{}", IntReturn, None, IntV("7")),
     \* a body that cannot be decoded
     Request(MultiRoute, "id" :> StrV("7"), "q" :> StrV("x"), EmptyMap,
             << >>, "{\"name\"", NoField, None, IntV("7")),
     \* a content type that is not supported
     Request(ExampleRoute(TRUE), EmptyMap, "limit" :> ListV(<<"7">>), EmptyMap,
             <<"text/plain">>, "{\"name\": \"x\"}", NoField, None, IntV("7")),
     \* binds, and returns what the schema does not accept
     Request(ExampleRoute(TRUE), EmptyMap, "limit" :> ListV(<<"7">>), EmptyMap,
             << >>, "{\"name\": \"x\"}", IntReturn, IntV("422"), StrV("x")),
     \* no body field: the body and the content type are not looked at
     Request(NoBodyRoute, EmptyMap, "q" :> StrV("x"), "x-h" :> ListV(<<"7">>),
             <<"text/plain">>, "{\"name\"", NoField, None, StrV("x")),
     \* a form, binds, no return schema
     Request(FormRoute, EmptyMap, "label" :> ListV(<<"x", "7">>), EmptyMap,
             <<APPLICATION_FORM_CONTENT_TYPE>>, "tags=x&name=7", NoField, None,
             ObjV("min" :> StrV("7")))}

\* the local variables of one invocation of the two handlers
EmptyFrame ==
    [path_r |-> EmptyAcc, query_r |-> EmptyAcc, header_r |-> EmptyAcc, body_r |-> EmptyAcc,
     received_body |-> NotRead, values |-> EmptyMap, errors |-> << >>,
     response |-> NoResponse]

\* mutant: the local state is kept in one place for all invocations, as
\* attributes of the middleware instance would be
frame_of_instance(p) == 1

\* where the local variables of invocation p live: in its own frame
frame_of(p) == p

Frame(p) == c_frame[frame_of(p)]

conc_others == <<handler_vars, norm_vars, r_route, r_content, r_response, r_pc, r_raised,
                 r_next_calls>>

ConcInit ==
    /\ HandlerOff
    /\ NormOff
    /\ r_self \in [validation_serializer : {FALSE}, has_response_validation_error : BOOLEAN]
    /\ r_route = [return_param |-> NoField, serializable |-> FALSE,
                  custom_response_validation_http_code |-> None]
    /\ r_content = NoResponse
    /\ r_response = NoResponse
    /\ r_pc = "off"
    /\ r_raised = NoException
    /\ r_next_calls = 0
    /\ c_req \in [Procs -> ConcRequests]
    /\ c_app = [p \in Procs |-> [route_args |-> c_req[p].args,
                                  query_params |-> c_req[p].query,
                                  headers_field |-> c_req[p].headers]]
    /\ c_frame = [p \in Procs |-> EmptyFrame]
    /\ c_pc = [p \in Procs |-> "start"]
    /\ c_out = [p \in Procs |-> [raised |-> NoException, next_calls |-> 0]]

\* lines 58-67: the locals are created, the path is bound
C_BindPath(p) ==
    /\ c_pc[p] = "start"
    /\ c_frame' = [c_frame EXCEPT ![frame_of(p)] =
                      [EmptyFrame EXCEPT !.path_r =
                          request_params_to_args(c_req[p].route.path, c_app[p].route_args)]]
    /\ c_pc' = [c_pc EXCEPT ![p] = "path"]
    /\ UNCHANGED <<conc_others, r_self, c_req, c_app, c_out>>

\* lines 70-79
C_BindQuery(p) ==
    /\ c_pc[p] = "path"
    /\ c_app' = [c_app EXCEPT ![p].query_params =
                    normalize_multi_params(@, c_req[p].route.query)]
    /\ c_frame' = [c_frame EXCEPT ![frame_of(p)].query_r =
                      request_params_to_args(c_req[p].route.query, c_app'[p].query_params)]
    /\ c_pc' = [c_pc EXCEPT ![p] = "query"]
    /\ UNCHANGED <<conc_others, r_self, c_req, c_out>>

\* lines 82-91
C_BindHeaders(p) ==
    /\ c_pc[p] = "query"
    /\ c_app' = [c_app EXCEPT ![p].headers_field =
                    normalize_multi_params(@, c_req[p].route.header)]
    /\ c_frame' = [c_frame EXCEPT ![frame_of(p)].header_r =
                      request_params_to_args(c_req[p].route.header, c_app'[p].headers_field)]
    /\ c_pc' = [c_pc EXCEPT ![p] = "header"]
    /\ UNCHANGED <<conc_others, r_self, c_req, c_out>>

\* lines 93-96
C_Merge(p) ==
    /\ c_pc[p] = "header"
    /\ c_frame' = [c_frame EXCEPT
                      ![frame_of(p)].values =
                          merged_values(Frame(p).path_r, Frame(p).query_r, Frame(p).header_r),
                      ![frame_of(p)].errors =
                          @ \o merged_errors(Frame(p).path_r, Frame(p).query_r, Frame(p).header_r)]
    /\ c_pc' = [c_pc EXCEPT ![p] = "merged"]
    /\ UNCHANGED <<conc_others, r_self, c_req, c_app, c_out>>

\* line 99: the route has no body parameter
C_SkipBody(p) ==
    /\ c_pc[p] = "merged"
    /\ c_req[p].route.body = NoParams
    /\ c_pc' = [c_pc EXCEPT ![p] = "bound"]
    /\ UNCHANGED <<conc_others, r_self, c_req, c_app, c_frame, c_out>>

\* line 102: _get_body raises
C_BodyRaises(p) ==
    /\ c_pc[p] = "merged"
    /\ c_req[p].route.body # NoParams
    /\ get_body(c_req[p].content_type, c_req[p].doc).kind = "raise"
    /\ c_out' = [c_out EXCEPT ![p].raised = get_body(c_req[p].content_type, c_req[p].doc).exc]
    /\ c_pc' = [c_pc EXCEPT ![p] = "raised"]
    /\ UNCHANGED <<conc_others, r_self, c_req, c_app, c_frame>>

\* lines 100-105
C_BindBody(p) ==
    /\ c_pc[p] = "merged"
    /\ c_req[p].route.body # NoParams
    /\ get_body(c_req[p].content_type, c_req[p].doc).kind = "ok"
    /\ LET body == get_body(c_req[p].content_type, c_req[p].doc).body
           b == request_body_to_args(c_req[p].route.body, body)
       IN  c_frame' = [c_frame EXCEPT ![frame_of(p)].received_body = body,
                                      ![frame_of(p)].body_r = b,
                                      ![frame_of(p)].values = Update(@, b.values),
                                      ![frame_of(p)].errors = @ \o b.errors]
    /\ c_pc' = [c_pc EXCEPT ![p] = "bound"]
    /\ UNCHANGED <<conc_others, r_self, c_req, c_app, c_out>>

\* lines 107-109
C_RaiseErrors(p) ==
    /\ c_pc[p] = "bound"
    /\ Frame(p).errors # << >>
    /\ c_out' = [c_out EXCEPT ![p].raised =
                    RequestValidationError(normalize_errors(Frame(p).errors), None)]
    /\ c_pc' = [c_pc EXCEPT ![p] = "raised"]
    /\ UNCHANGED <<conc_others, r_self, c_req, c_app, c_frame>>

\* line 112
C_Install(p) ==
    /\ c_pc[p] = "bound"
    /\ Frame(p).errors = << >>
    /\ c_app' = [c_app EXCEPT ![p].route_args = Frame(p).values]
    /\ c_pc' = [c_pc EXCEPT ![p] = "installed"]
    /\ UNCHANGED <<conc_others, r_self, c_req, c_frame, c_out>>

\* line 115, and line 210 in the response middleware: the route handler
\* runs and returns its response
C_CallNext(p) ==
    /\ c_pc[p] = "installed"
    /\ c_out' = [c_out EXCEPT ![p].next_calls = @ + 1]
    /\ c_frame' = [c_frame EXCEPT ![frame_of(p)].response = c_req[p].response]
    /\ c_pc' = [c_pc EXCEPT ![p] = "called"]
    /\ UNCHANGED <<conc_others, r_self, c_req, c_app>>

\* the call of line 218 for invocation p
C_serialized(p) ==
    serialize_response(r_self, c_req[p].ret.return_param, c_req[p].ret.serializable,
                       Frame(p).response.body,
                       c_req[p].ret.custom_response_validation_http_code # None)

\* lines 213-224: the response is returned, serialized if it is JSON
C_ReturnResponse(p) ==
    /\ c_pc[p] = "called"
    /\ IF truthy(Frame(p).response.body) /\ Frame(p).response.is_json
       THEN /\ C_serialized(p).kind = "ok"
            /\ c_frame' = [c_frame EXCEPT ![frame_of(p)].response.body = C_serialized(p).body]
       ELSE UNCHANGED c_frame
    /\ c_pc' = [c_pc EXCEPT ![p] = "done"]
    /\ UNCHANGED <<conc_others, r_self, c_req, c_app, c_out>>

\* lines 217-218: _serialize_response raises
C_ResponseRaises(p) ==
    /\ c_pc[p] = "called"
    /\ truthy(Frame(p).response.body) /\ Frame(p).response.is_json
    /\ C_serialized(p).kind = "raise"
    /\ c_out' = [c_out EXCEPT ![p].raised = C_serialized(p).exc]
    /\ c_pc' = [c_pc EXCEPT ![p] = "raised"]
    /\ UNCHANGED <<conc_others, r_self, c_req, c_app, c_frame>>

ConcNext ==
    \E p \in Procs :
        \/ C_BindPath(p)
        \/ C_BindQuery(p)
        \/ C_BindHeaders(p)
        \/ C_Merge(p)
        \/ C_SkipBody(p)
        \/ C_BodyRaises(p)
        \/ C_BindBody(p)
        \/ C_RaiseErrors(p)
        \/ C_Install(p)
        \/ C_CallNext(p)
        \/ C_ReturnResponse(p)
        \/ C_ResponseRaises(p)

ConcSpec == ConcInit /\ [][ConcNext]_vars

----------------------------------------------------------------------------
(* Requests whose raw maps and bodies hold null values *)

\* raw values, None among them
NullVals == {None, StrV("7"), StrV("x"), ListV(<<"x">>)}

NullRoutes == {MultiRoute, ExampleRoute(FALSE), NoBodyRoute, ModelRoute(TRUE)}

NullDocs == {"", "null", "{}", "{\"name\": null}", "{\"name\": \"x\"}", "{\"name\""}

NullInit ==
    /\ route \in NullRoutes
    /\ route_args \in Maps(Aliases(route.path), {None, StrV("7"), StrV("x")})
    /\ query_params \in Maps(RawKeys(route.query), NullVals)
    /\ headers_field \in Maps(RawKeys(route.header), NullVals)
    /\ content_type \in {<< >>, <<"text/plain">>}
    /\ decoded_body \in (IF route.body = NoParams THEN {""} ELSE NullDocs)
    /\ received = [args |-> route_args, query |-> query_params, headers |-> headers_field]
    /\ received_body = NotRead
    /\ pc = "start"
    /\ path_r = EmptyAcc
    /\ query_r = EmptyAcc
    /\ header_r = EmptyAcc
    /\ body_r = EmptyAcc
    /\ values = EmptyMap
    /\ errors = << >>
    /\ raised = NoException
    /\ next_calls = 0
    /\ NormOff
    /\ RespOff
    /\ ConcOff

NullSpec == NullInit /\ [][Next]_vars

----------------------------------------------------------------------------
(* Vocabulary of the properties *)

Sources == <<"path", "query", "header", "body">>

Finished == pc \in {"raised", "done"}

\* the body was decoded (or the route declares no body field)
BodyRead == route.body = NoParams \/ received_body # NotRead

\* handler left through line 109, with the aggregated errors
Aggregated == pc = "raised" /\ BodyRead

\* the result of binding one source, once it has been bound
ResultOf(src) ==
    CASE src = "path" -> path_r
      [] src = "query" -> query_r
      [] src = "header" -> header_r
      [] OTHER -> body_r

Plain(f) == f.shape \in {"scalar", "seq"}

AliasOmitted == Len(route.body) = 1 /\ ~route.body[1].embed

\* where the errors of a field are located
FieldLoc(f) ==
    IF f.in_ = "body" /\ AliasOmitted THEN <<"body">> ELSE <<f.in_, f.alias>>

\* the raw value a field has in its source as received (None: no value)
RawValue(f) ==
    CASE f.in_ = "path" -> Get(received.args, f.alias)
      [] f.in_ = "query" -> Get(received.query, f.alias)
      [] f.in_ = "header" -> Get(received.headers, f.alias)
      [] OTHER -> IF AliasOmitted THEN received_body
                  ELSE IF received_body.k = "obj" THEN Get(received_body.obj, f.alias)
                  ELSE None

\* the body is something a field can be looked up in
BodyIsMapping == AliasOmitted \/ received_body = None \/ received_body.k = "obj"

MissingAt(errs, loc) ==
    {i \in 1..Len(errs) : errs[i].type = "missing" /\ errs[i].loc = loc /\ errs[i].pos = << >>}

ErrorsAt(errs, loc) == {i \in 1..Len(errs) : errs[i].loc = loc}

CallsAt(calls, loc) == {i \in 1..Len(calls) : calls[i].loc = loc}

AllNames == Names(route.path) \cup Names(route.query) \cup Names(route.header)
            \cup Names(route.body)

ForAllFields(P(_)) ==
    \A s \in 1..4 : \A i \in 1..Len(route[Sources[s]]) : P(route[Sources[s]][i])

ExistsField(P(_)) ==
    \E s \in 1..4 : \E i \in 1..Len(route[Sources[s]]) : P(route[Sources[s]][i])

----------------------------------------------------------------------------
(* C1 *)

C1_Case(f) == Plain(f) /\ f.required /\ RawValue(f) = None

\* C1: when the binder has processed every source and a required path,
\* query, header or body field has no value, the raised error list holds
\* exactly one "missing" record at the field's location and the next
\* middleware is not invoked.
C1_RequiredMissingOnce ==
    (Finished /\ BodyRead) =>
        ForAllFields(LAMBDA f :
            C1_Case(f) =>
                /\ raised.kind = "RequestValidationError"
                /\ Cardinality(MissingAt(raised.errors, FieldLoc(f))) = 1
                /\ next_calls = 0)

----------------------------------------------------------------------------
(* C2 *)

\* a source has a mistake: one of its fields produced an error, or the body
\* could not be decoded
Mistaken(src) ==
    \/ ResultOf(src).errors # << >>
    \/ src = "body" /\ route.body # NoParams /\ get_body(content_type, decoded_body).kind = "raise"

FromSource(errs, src) == {i \in 1..Len(errs) : errs[i].loc[1] = src}

\* the index of the declared field an error of a source belongs to
FieldIndex(e, params) ==
    IF Len(e.loc) < 2 THEN 1
    ELSE CHOOSE i \in 1..Len(params) : params[i].alias = e.loc[2]

InDeclarationOrder(errs, params) ==
    \A i, j \in 1..Len(errs) : i < j => FieldIndex(errs[i], params) <= FieldIndex(errs[j], params)

SourceRank(e) == CHOOSE s \in 1..4 : Sources[s] = e.loc[1]

\* C2 as stated: a request with mistakes in several sources ends in one
\* failure whose list holds the errors of every mistaken source, ordered
\* path, query, header, body.
C2_AllSourcesReported ==
    (Finished /\ Cardinality({s \in 1..4 : Mistaken(Sources[s])}) >= 2) =>
        /\ raised.kind = "RequestValidationError"
        /\ \A s \in 1..4 : Mistaken(Sources[s]) => FromSource(raised.errors, Sources[s]) # {}
        /\ \A i, j \in 1..Len(raised.errors) :
              i < j => SourceRank(raised.errors[i]) <= SourceRank(raised.errors[j])

\* C2 amended: when the body can be decoded (or no body field is declared),
\* the single failure raised holds the errors of path, query, header and
\* body, all of them, in this order, each source in declaration order; a
\* required field without value is among them; binding does not succeed
\* while any source has an error.
C2_AggregateInSourceOrder ==
    /\ Aggregated =>
        /\ raised.kind = "RequestValidationError"
        /\ raised.errors = path_r.errors \o query_r.errors \o header_r.errors \o body_r.errors
        /\ raised.errors # << >>
        /\ \A s \in 1..4 : InDeclarationOrder(ResultOf(Sources[s]).errors, route[Sources[s]])
        /\ \A i, j \in 1..Len(raised.errors) :
              i < j => SourceRank(raised.errors[i]) <= SourceRank(raised.errors[j])
        /\ next_calls = 0
    /\ (Finished /\ BodyRead) =>
        ForAllFields(LAMBDA f : C1_Case(f) => MissingAt(raised.errors, FieldLoc(f)) # {})
    /\ pc \in {"installed", "done"} => \A s \in 1..4 : ResultOf(Sources[s]).errors = << >>

\* path, query and body are all mistaken and all reported
C2_Witness ==
    /\ Aggregated
    /\ route.id = "multi"
    /\ \A s \in {1, 2, 4} : FromSource(raised.errors, Sources[s]) # {}
    /\ Len(body_r.errors) >= 2

----------------------------------------------------------------------------
(* C3 *)

JsonContent == strip(content_type) = << >>
               \/ startswith(strip(content_type), APPLICATION_JSON_CONTENT_TYPE)

C3_Example(r) ==
    (route.id = r /\ received.query = EmptyMap /\ JsonContent /\ Finished) =>
        /\ decoded_body = "{\"name\": \"x\"}" =>
              ErrorsAt(raised.errors, <<"query", "limit">>) = {}
        /\ decoded_body \in {"{}", ""} =>
              /\ raised.kind = "RequestValidationError"
              /\ MissingAt(raised.errors, <<"body", "name">>) # {}
              /\ Get(values, "limit") = IntV("10")

\* C3 as stated: on a route with query field limit (int, default 10) and
\* required body field name (str), whether the body field is embedded or
\* not, an empty query with body {"name": "x"} gives no error at
\* ("query", "limit"), and a body without name fails with "missing" at
\* ("body", "name") while limit is resolved to 10.
C3_ExampleAnyRoute == C3_Example("example") /\ C3_Example("example_embed")

\* C3 amended: the example holds when the body field requests embedding;
\* when it does not, the whole body is the value of name: {"name": "x"}
\* and {} fail with a type error located at ("body",), an empty body with
\* "missing" at ("body",), and limit is resolved to 10 all the same.
C3_ExampleEmbedded ==
    /\ C3_Example("example_embed")
    /\ (route.id = "example" /\ received.query = EmptyMap /\ JsonContent /\ Finished) =>
          /\ decoded_body \in {"{\"name\": \"x\"}", "{}"} =>
                /\ raised.kind = "RequestValidationError"
                /\ \E i \in 1..Len(raised.errors) :
                      raised.errors[i].type = "string_type" /\ raised.errors[i].loc = <<"body">>
                /\ ErrorsAt(raised.errors, <<"body", "name">>) = {}
          /\ decoded_body = "" =>
                /\ raised.kind = "RequestValidationError"
                /\ MissingAt(raised.errors, <<"body">>) # {}
          /\ decoded_body \in {"{\"name\": \"x\"}", "{}", ""} =>
                /\ Get(values, "limit") = IntV("10")
                /\ ErrorsAt(raised.errors, <<"query", "limit">>) = {}

C3_Witness ==
    /\ route.id = "example_embed" /\ received.query = EmptyMap /\ JsonContent
    /\ decoded_body = "{}" /\ pc = "raised"
    /\ MissingAt(raised.errors, <<"body", "name">>) # {}

----------------------------------------------------------------------------
(* C4 *)

\* C4: when binding succeeds, app.context["_route_args"] is the values map:
\* keyed by the field names, one entry for every declared field (the
\* default when the field has no value), nothing left of the previous
\* arguments, and it is in place before the next middleware is invoked.
C4_HandlerArguments ==
    /\ pc \in {"installed", "done"} =>
        /\ errors = << >>
        /\ route_args = values
        /\ DOMAIN route_args = AllNames
        /\ ForAllFields(LAMBDA f :
              /\ (Plain(f) /\ RawValue(f) = None) => route_args[f.name] = f.default
              /\ (Plain(f) /\ RawValue(f) # None) =>
                    \E i \in 1..Len(ResultOf(f.in_).calls) :
                        /\ ResultOf(f.in_).calls[i].loc = FieldLoc(f)
                        /\ route_args[f.name] =
                              validate(f, ResultOf(f.in_).calls[i].value, FieldLoc(f)).value)
    /\ pc = "installed" => next_calls = 0
    /\ next_calls > 0 => pc = "done"

\* a successful binding that replaced the path argument "id" by "item_id"
\* and filled a default
C4_Witness ==
    /\ pc = "done" /\ route.id = "multi" /\ next_calls = 1
    /\ "id" \in DOMAIN received.args /\ "id" \notin DOMAIN route_args
    /\ route_args["h"] = StrV("d")

----------------------------------------------------------------------------
(* C5 *)

\* the source of a field has been bound
Ready(f) ==
    IF f.in_ = "body" THEN received_body # NotRead
    ELSE pc \in {"merged", "bound", "raised", "installed", "done"}

\* what the lookup of the field's alias yields: path arguments as received,
\* the normalized query and header maps, the decoded body
LookupValue(f) ==
    CASE f.in_ = "query" -> Get(query_params, f.alias)
      [] f.in_ = "header" -> Get(headers_field, f.alias)
      [] OTHER -> RawValue(f)

\* a required field got its error and no value
RequiredOutcome(f) ==
    /\ MissingAt(ResultOf(f.in_).errors, FieldLoc(f)) # {}
    /\ f.name \notin DOMAIN ResultOf(f.in_).values

\* a field that is not required got its default and no error
DefaultOutcome(f) ==
    /\ f.name \in DOMAIN ResultOf(f.in_).values
    /\ ResultOf(f.in_).values[f.name] = f.default
    /\ ErrorsAt(ResultOf(f.in_).errors, FieldLoc(f)) = {}

\* C5 as stated: in every source, a field without value gets the default
\* and no error when it is not required, and a "missing" error and no
\* value when it is required.
C5_MissingPolicy ==
    ForAllFields(LAMBDA f :
        (Ready(f) /\ Plain(f) /\ RawValue(f) = None) =>
            IF f.required THEN RequiredOutcome(f) ELSE DefaultOutcome(f))

\* C5 amended: the policy decides whenever the lookup of the alias in the
\* source yields no value and the source can be looked up in (path
\* arguments, normalized query and header map, a body that is a mapping or
\* null): default and no error when not required, one "missing" error and
\* no value when required. A body that is not a mapping gives every field
\* looked up by alias a "missing" error, required or not.
C5_MissingPolicyOnLookup ==
    ForAllFields(LAMBDA f :
        /\ (Ready(f) /\ LookupValue(f) = None /\ (f.in_ = "body" => BodyIsMapping)) =>
              IF f.required
              THEN /\ RequiredOutcome(f)
                   /\ Cardinality(ErrorsAt(ResultOf(f.in_).errors, FieldLoc(f))) = 1
              ELSE DefaultOutcome(f)
        /\ (Ready(f) /\ f.in_ = "body" /\ ~BodyIsMapping) =>
              MissingAt(body_r.errors, FieldLoc(f)) # {})

\* a JSON object without "name" and "note": one error, one default
C5_Witness ==
    /\ route.id = "multi" /\ pc = "bound" /\ decoded_body = "{}"
    /\ body_r.errors = <<get_missing_field_error(<<"body", "name">>)>>
    /\ body_r.values = ("note" :> StrV("d"))
    /\ "x-h" \notin DOMAIN headers_field /\ header_r.values = ("h" :> StrV("d"))

----------------------------------------------------------------------------
(* C6 *)

IsList(v, n) == v.k = "list" /\ Len(v.items) >= n

\* what the rule of C6 makes of a raw value of a scalar field
C6_Expected(v) == IF IsList(v, 1) /\ Len(v.items) = 1 THEN StrV(v.items[1]) ELSE v

\* C6: a scalar field of query, header or body, and a scalar sub-field of
\* a structured parameter, whose raw value is a list reaches the validator
\* unwrapped when the list has one element and unchanged when it has two
\* or more.
C6_ScalarListRule ==
    ForAllFields(LAMBDA f :
        /\ (Ready(f) /\ f.shape = "scalar" /\ f.in_ # "path" /\ IsList(RawValue(f), 1)) =>
              \E i \in CallsAt(ResultOf(f.in_).calls, FieldLoc(f)) :
                  ResultOf(f.in_).calls[i].value = C6_Expected(RawValue(f))
        /\ (Ready(f) /\ f.shape = "model") =>
              \A j \in 1..Len(f.sub) :
                  (f.sub[j].shape = "scalar" /\ IsList(Get(received.query, f.sub[j].alias), 1)) =>
                      \E i \in CallsAt(ResultOf(f.in_).calls, FieldLoc(f)) :
                          Get(ResultOf(f.in_).calls[i].value.obj, f.sub[j].alias)
                              = C6_Expected(Get(received.query, f.sub[j].alias)))

----------------------------------------------------------------------------
(* C8 *)

FormContent == ~JsonContent /\ startswith(strip(content_type), APPLICATION_FORM_CONTENT_TYPE)

Submitted(key) ==
    {i \in 1..Len(form_pairs(decoded_body)) : form_pairs(decoded_body)[i][1] = key}

----------------------------------------------------------------------------
(* C9 *)

PastBody == pc \in {"bound", "raised", "installed", "done"}

\* C9: a body treated as JSON that cannot be decoded fails the request with
\* a request-validation error of exactly one record: location ("body",
\* position reported by the decoder), type json_invalid, the decoder's
\* message as context, and the raw text as the error's body.
C9_JsonDecodeFailure ==
    (route.body # NoParams /\ JsonContent /\ ~json_body(decoded_body).ok /\ PastBody) =>
        /\ pc = "raised"
        /\ raised.kind = "RequestValidationError"
        /\ Len(raised.errors) = 1
        /\ raised.errors[1].loc = <<"body">>
        /\ raised.errors[1].pos = <<json_body(decoded_body).pos>>
        /\ raised.errors[1].type = "json_invalid"
        /\ raised.errors[1].ctx = json_body(decoded_body).msg
        /\ raised.body = StrV(decoded_body)
        /\ next_calls = 0

C9_Witness ==
    /\ pc = "raised" /\ JsonContent /\ decoded_body = "{\"name\""
    /\ raised.errors[1].pos = <<7>> /\ raised.errors[1].ctx = "Expecting ':' delimiter"
    /\ errors # << >>

----------------------------------------------------------------------------
(* C10 *)

\* C10: the content type (surrounding white space stripped) alone chooses
\* the decoding: empty or starting with application/json, the body is
\* decoded as JSON; starting with application/x-www-form-urlencoded, as form
\* pairs; anything else fails with NotImplementedError and no body mapping.
C10_BodyDecoding ==
    (route.body # NoParams /\ PastBody) =>
        IF JsonContent
        THEN IF json_body(decoded_body).ok
             THEN received_body = json_body(decoded_body).value
                  /\ raised.kind \in {"none", "RequestValidationError"}
             ELSE /\ pc = "raised" /\ raised.kind = "RequestValidationError"
                  /\ raised.errors[1].type = "json_invalid"
                  /\ received_body = NotRead
        ELSE IF FormContent
        THEN /\ received_body = ObjV(parse_qs(decoded_body, TRUE))
             /\ raised.kind = "RequestValidationError" => raised.errors = errors
        ELSE /\ pc = "raised" /\ raised.kind = "NotImplementedError"
             /\ received_body = NotRead /\ body_r = EmptyAcc /\ next_calls = 0

C10_Witness ==
    /\ pc = "raised" /\ raised = NotImplementedError /\ content_type = <<"text/plain">>
    /\ route.body # NoParams /\ decoded_body = "{\"name\": \"x\"}"

----------------------------------------------------------------------------
(* C7 *)

\* the keys under which the fields of a model parameter are looked up
LookupKeys(param) ==
    {param.sub[j].alias : j \in 1..Len(param.sub)}
    \cup (IF param.by_name THEN {param.sub[j].name : j \in 1..Len(param.sub)} ELSE {})

SeqLookupKeys(param) ==
    {param.sub[j].alias : j \in {k \in 1..Len(param.sub) : param.sub[k].shape = "seq"}}
    \cup (IF param.by_name
          THEN {param.sub[j].name : j \in {k \in 1..Len(param.sub) : param.sub[k].shape = "seq"}}
          ELSE {})

\* no model field is looked up under the alias of a model parameter, and no
\* sequence-typed model field under the alias of a scalar parameter
NoClash(params) ==
    \A i, j \in 1..Len(params) :
        params[i].shape = "model" =>
            /\ params[j].shape = "model" => params[j].alias \notin LookupKeys(params[i])
            /\ params[j].shape = "scalar" => params[j].alias \notin SeqLookupKeys(params[i])

\* C7 as stated: for every raw map and every parameter list, normalizing
\* the normalized map again gives the same map.
C7_Idempotent == n_pc = "twice" => n_twice = n_once

\* C7 amended: normalizing again gives the same map when no field of a
\* structured parameter is looked up under the alias of a structured
\* parameter, and no sequence-typed one under the alias of a scalar
\* parameter.
C7_IdempotentWithoutClash == (n_pc = "twice" /\ NoClash(n_params)) => n_twice = n_once

\* a model parameter and a scalar parameter, both changed by the first pass
C7_Witness ==
    /\ n_pc = "twice" /\ NoClash(n_params) /\ Len(n_params) = 2
    /\ n_params[1].shape = "model" /\ n_params[2].shape = "scalar"
    /\ n_once # n_input /\ Get(n_once, "q") = StrV("x")
    /\ Get(n_once, "flt") = ObjV("min" :> StrV("x"))

----------------------------------------------------------------------------
(* C13 *)

BodyUndecodable == route.body # NoParams /\ get_body(content_type, decoded_body).kind = "raise"

\* C13: on a route with body fields, a body that cannot be decoded (JSON
\* that does not parse, unsupported content type) fails the request at once
\* with the failure of the body extractor and nothing else: no body field is
\* bound, and the raised failure holds no path, query or header error, also
\* when such errors had been collected.
C13_MalformedBodyAlone ==
    (BodyUndecodable /\ PastBody) =>
        /\ pc = "raised"
        /\ raised = get_body(content_type, decoded_body).exc
        /\ raised.kind \in {"RequestValidationError", "NotImplementedError"}
        /\ \A i \in 1..Len(raised.errors) :
              raised.errors[i].loc[1] \notin {"path", "query", "header"}
        /\ Len(raised.errors) <= 1
        /\ received_body = NotRead /\ body_r = EmptyAcc
        /\ next_calls = 0

\* path and query errors were collected, the JSON failure is raised alone
C13_Witness ==
    /\ pc = "raised" /\ route.id = "multi" /\ BodyUndecodable
    /\ FromSource(errors, "path") # {} /\ FromSource(errors, "query") # {}
    /\ raised.kind = "RequestValidationError" /\ Len(raised.errors) = 1
    /\ raised.errors[1].type = "json_invalid"

----------------------------------------------------------------------------
(* C15 *)

\* the body was decoded into something that has no lookup (a JSON array),
\* and the body fields are looked up by their alias
C15_Case == received_body # NotRead /\ ~BodyIsMapping

\* C15: when the decoded body is not a mapping and the body fields are
\* addressed by alias, binding the body does not raise, and every declared
\* body field, required or not, has exactly one error, a "missing" record at
\* ("body", alias), and no value stored.
C15_NonMappingBody ==
    C15_Case =>
        /\ pc \in {"bound", "raised"}
        /\ \A n \in 1..Len(route.body) :
              LET f == route.body[n]
              IN  /\ Cardinality(ErrorsAt(body_r.errors, <<"body", f.alias>>)) = 1
                  /\ Cardinality(MissingAt(body_r.errors, <<"body", f.alias>>)) = 1
                  /\ f.name \notin DOMAIN body_r.values

\* what the code does in the case of C15: one "missing" record and the
\* default stored for a field that is not required, two "missing" records
\* and no value for a required one
C15_AsCoded ==
    C15_Case =>
        \A n \in 1..Len(route.body) :
            LET f == route.body[n]
                k == Cardinality(MissingAt(body_r.errors, <<"body", f.alias>>))
            IN  /\ ErrorsAt(body_r.errors, <<"body", f.alias>>)
                      = MissingAt(body_r.errors, <<"body", f.alias>>)
                /\ IF f.required THEN k = 2 /\ f.name \notin DOMAIN body_r.values
                   ELSE k = 1 /\ Get(body_r.values, f.name) = f.default

----------------------------------------------------------------------------
(* C16 *)

\* the value a body field is bound from reached the validator at loc
\* unchanged (a list bound to a scalar field is changed on the way, see C6)
C16_BoundFrom(f, v, loc) ==
    IF v = None
    THEN /\ CallsAt(body_r.calls, loc) = {}
         /\ IF f.required THEN MissingAt(body_r.errors, loc) # {}
            ELSE Get(body_r.values, f.name) = f.default
    ELSE /\ CallsAt(body_r.calls, loc) # {}
         /\ (f.shape = "seq" \/ v.k # "list") =>
                \A i \in CallsAt(body_r.calls, loc) : body_r.calls[i].value = v

\* C16: the alias is omitted exactly when the route has one body field and
\* this field does not request embedding. Then the whole received body is
\* the value looked up for the field, and every error of the body is located
\* at ("body",). In every other case each body field is looked up by its own
\* alias in the received body, and every error of the body is located at
\* ("body", alias) for a declared alias.
C16_BodyAddressing ==
    (route.body # NoParams /\ received_body # NotRead) =>
        IF Len(route.body) = 1 /\ ~route.body[1].embed
        THEN /\ C16_BoundFrom(route.body[1], received_body, <<"body">>)
             /\ \A i \in 1..Len(body_r.errors) : body_r.errors[i].loc = <<"body">>
             /\ \A i \in 1..Len(body_r.calls) : body_r.calls[i].loc = <<"body">>
        ELSE /\ \A n \in 1..Len(route.body) :
                    LET f == route.body[n]
                    IN  received_body.k = "obj" =>
                            C16_BoundFrom(f, Get(received_body.obj, f.alias), <<"body", f.alias>>)
             /\ \A i \in 1..Len(body_r.errors) :
                    /\ Len(body_r.errors[i].loc) = 2
                    /\ body_r.errors[i].loc[1] = "body"
                    /\ body_r.errors[i].loc[2] \in Aliases(route.body)
             /\ \A i \in 1..Len(body_r.calls) :
                    /\ Len(body_r.calls[i].loc) = 2
                    /\ body_r.calls[i].loc[2] \in Aliases(route.body)

\* the body {"name": "x"} bound to a single field that is not embedded: the
\* whole object is the value of the field and fails at ("body",)
C16_Witness ==
    /\ route.id = "example" /\ received_body = ObjV("name" :> StrV("x"))
    /\ body_r.calls = << [loc |-> <<"body">>, value |-> ObjV("name" :> StrV("x"))] >>
    /\ Len(body_r.errors) = 1 /\ body_r.errors[1].loc = <<"body">>

----------------------------------------------------------------------------
(* C17 *)

QueryBound == pc \in {"query", "header", "merged", "bound", "raised", "installed", "done"}

\* the key of the flat map a sub-field is to be read from ("" when none)
C17_SourceKey(raw, sub, by_name) ==
    IF sub.alias \in DOMAIN raw THEN sub.alias
    ELSE IF by_name /\ sub.name \in DOMAIN raw THEN sub.name
    ELSE ""

\* v is the raw value, or the element a list was unwrapped to
C17_TakenFrom(v, raw_value) ==
    \/ v = raw_value
    \/ raw_value.k = "list" /\ \E n \in 1..Len(raw_value.items) : v = StrV(raw_value.items[n])

\* C17: for a structured query parameter, a sub-field's value is taken from
\* the entry of the flat map under the sub-field's alias when there is one,
\* from the entry under its name only when there is none under the alias
\* and the model allows lookup by name, and the sub-field is absent from
\* the nested object otherwise, also when there is an entry under its name.
C17_SubFieldLookup ==
    QueryBound =>
        \A n \in 1..Len(route.query) :
            LET f == route.query[n]
            IN  f.shape = "model" =>
                    /\ Get(query_params, f.alias).k = "obj"
                    /\ \A j \in 1..Len(f.sub) :
                          LET key == C17_SourceKey(received.query, f.sub[j], f.by_name)
                              nested == Get(query_params, f.alias).obj
                          IN  IF key = "" THEN f.sub[j].alias \notin DOMAIN nested
                              ELSE /\ f.sub[j].alias \in DOMAIN nested
                                   /\ C17_TakenFrom(nested[f.sub[j].alias], received.query[key])

\* "lo" is read by name: the model allows it and "min" is absent
C17_Witness ==
    /\ QueryBound /\ route.id = "model_by_name"
    /\ received.query = (("lo" :> StrV("7")) @@ ("hi" :> StrV("x")))
    /\ Get(query_params, "flt") = ObjV(("min" :> StrV("7")) @@ ("hi" :> StrV("x")))

\* "lo" is not read: the model does not allow lookup by name
C17_WitnessByAliasOnly ==
    /\ QueryBound /\ route.id = "model"
    /\ received.query = (("lo" :> StrV("7")) @@ ("hi" :> StrV("x")))
    /\ Get(query_params, "flt") = ObjV("hi" :> StrV("x"))

----------------------------------------------------------------------------
(* C18 *)

\* the sub-fields of a structured parameter that were found in the flat map
C18_Found(f) ==
    {j \in 1..Len(f.sub) : C17_SourceKey(received.query, f.sub[j], f.by_name) # ""}

\* under the parameter's alias the map holds one object made of exactly the
\* sub-fields found
C18_Nested(f) ==
    /\ Get(query_params, f.alias).k = "obj"
    /\ DOMAIN Get(query_params, f.alias).obj = {f.sub[j].alias : j \in C18_Found(f)}

----------------------------------------------------------------------------
(* C19 *)

\* the raw map of a query or header field as received, and as normalized
C19_Raw(f) == IF f.in_ = "query" THEN received.query ELSE received.headers
C19_Normalized(f) == IF f.in_ = "query" THEN query_params ELSE headers_field

\* a declared query or header field without entry in the raw map, once its
\* source has been normalized and bound
C19_Absent(f) ==
    /\ f.in_ \in {"query", "header"}
    /\ IF f.in_ = "query" THEN QueryBound ELSE QueryBound /\ pc # "query"
    /\ f.alias \notin DOMAIN C19_Raw(f)

\* the field was resolved by the missing-field policy and never validated
C19_ByPolicy(f) ==
    /\ f.alias \notin DOMAIN C19_Normalized(f)
    /\ CallsAt(ResultOf(f.in_).calls, FieldLoc(f)) = {}
    /\ IF f.required THEN RequiredOutcome(f) ELSE DefaultOutcome(f)

\* C19 as stated: every declared field, scalar, sequence or structured,
\* that has no entry in the raw map has none in the normalized map either
\* and is resolved by the missing-field policy, not validated.
C19_AbsentStaysAbsent ==
    ForAllFields(LAMBDA f : C19_Absent(f) => C19_ByPolicy(f))

\* C19 amended: this holds for scalar and sequence fields. A structured
\* parameter always gets an object under its alias, the empty object when
\* none of its sub-fields was found, and this object is validated: the
\* missing-field policy is never applied to it.
C19_AbsentPlainStaysAbsent ==
    ForAllFields(LAMBDA f :
        C19_Absent(f) =>
            IF Plain(f) THEN C19_ByPolicy(f)
            ELSE /\ f.alias \in DOMAIN C19_Normalized(f)
                 /\ C19_Normalized(f)[f.alias].k = "obj"
                 /\ ResultOf(f.in_).calls =
                        << [loc |-> FieldLoc(f), value |-> C19_Normalized(f)[f.alias]] >>
                 /\ MissingAt(ResultOf(f.in_).errors, FieldLoc(f)) = {})

\* an absent required scalar and an absent optional scalar: the maps stay
\* empty, one "missing" error, one default
C19_Witness ==
    /\ route.id = "multi" /\ pc = "header"
    /\ received.query = EmptyMap /\ received.headers = EmptyMap
    /\ query_params = EmptyMap /\ headers_field = EmptyMap
    /\ query_r.errors = <<get_missing_field_error(<<"query", "q">>)>>
    /\ header_r.values = ("h" :> StrV("d"))

\* an empty query on a structured parameter: the empty object is validated
C19_WitnessStructured ==
    /\ route.id = "model" /\ pc = "query" /\ received.query = EmptyMap
    /\ query_params = ("flt" :> ObjV(EmptyMap))
    /\ query_r.calls = << [loc |-> <<"query", "flt">>, value |-> ObjV(EmptyMap)] >>

----------------------------------------------------------------------------
(* C11 *)

RespFinished == r_pc \in {"returned", "raised"}

\* the response has a body and is JSON: the response binder is applied to it
Applied == truthy(r_content.body) /\ r_content.is_json

SchemaDeclared == r_route.return_param # NoField

\* the errors of the handler's return value against the return schema
SchemaErrors == validate(r_route.return_param, r_content.body, <<"response">>).errors

RouteFlag == r_route.custom_response_validation_http_code # None
AppFlag == r_self.has_response_validation_error

\* the route handler has returned
Responded == r_pc \in {"called", "returned", "raised"}

\* what the response binder makes of the handler's return value
Binder ==
    serialize_response(r_self, r_route.return_param, r_route.serializable, r_content.body,
                       RouteFlag)

\* C11: for a return value that fails the declared return schema, the
\* response binder raises the response-validation error of kind "route"
\* when the route has a custom response-validation code, also when the flag
\* of the application is set, and the response-validation error of kind
\* "app" when only the flag of the application is set; this is the
\* exception that leaves the middleware when the binder is applied.
C11_RouteBeforeApp ==
    (Responded /\ SchemaDeclared /\ SchemaErrors # << >> /\ (RouteFlag \/ AppFlag)) =>
        /\ Binder = Raised(ResponseValidationError(normalize_errors(SchemaErrors),
                                                    r_content.body,
                                                    IF RouteFlag THEN "route" ELSE "app"))
        /\ (RespFinished /\ Applied) =>
              r_pc = "raised" /\ r_raised = Binder.exc /\ r_response = r_content

\* both flags are set and a string is returned where an integer is declared
C11_Witness ==
    /\ r_pc = "raised" /\ RouteFlag /\ AppFlag
    /\ r_route.return_param.ty = "int" /\ r_content.body = StrV("x")
    /\ r_raised.kind = "ResponseValidationError" /\ r_raised.source = "route"

\* only the flag of the application is set
C11_WitnessApp ==
    /\ r_pc = "raised" /\ ~RouteFlag /\ AppFlag
    /\ r_raised.kind = "ResponseValidationError" /\ r_raised.source = "app"

----------------------------------------------------------------------------
(* C12 *)

\* C12: for a return value that fails the declared return schema, when
\* neither the route nor the application has response validation
\* configured, the response binder raises a request-validation error, never
\* a response-validation error; it holds the normalized errors, all located
\* under ("response",), and the raw return value as body; this is the
\* exception that leaves the middleware when the binder is applied.
C12_RequestErrorByDefault ==
    (Responded /\ SchemaDeclared /\ SchemaErrors # << >> /\ ~RouteFlag /\ ~AppFlag) =>
        /\ Binder.kind = "raise"
        /\ Binder.exc.kind = "RequestValidationError"
        /\ Binder.exc.errors = normalize_errors(SchemaErrors)
        /\ \A i \in 1..Len(Binder.exc.errors) : Binder.exc.errors[i].loc[1] = "response"
        /\ Binder.exc.body = r_content.body
        /\ Binder.exc.source = ""
        /\ (RespFinished /\ Applied) => r_pc = "raised" /\ r_raised = Binder.exc

\* an object without the required field "min" is returned for a model
C12_Witness ==
    /\ r_pc = "raised" /\ ~RouteFlag /\ ~AppFlag
    /\ r_route.return_param.shape = "model" /\ r_content.body = ObjV("hi" :> StrV("x"))
    /\ r_raised = RequestValidationError(
                      <<get_missing_field_error(<<"response", "min">>)>>, r_content.body)

----------------------------------------------------------------------------
(* C20 *)

\* the general-purpose conversion of the handler's return value
Converted == jsonable_encoder(r_content.body, r_self.validation_serializer)

\* C20: when the route declares no return schema, nothing is validated:
\* whatever the return value and the two flags are, the result of the
\* response binder is the general-purpose conversion of the return value,
\* neither a request-validation nor a response-validation error is raised,
\* and the body of a JSON response that is returned is this conversion.
C20_NoSchemaNoValidation ==
    (Responded /\ ~SchemaDeclared) =>
        /\ Binder = Converted
        /\ Binder.exc.kind \notin {"RequestValidationError", "ResponseValidationError"}
        /\ r_raised.kind \notin {"RequestValidationError", "ResponseValidationError"}
        /\ r_raised.errors = << >>
        /\ (RespFinished /\ r_content.is_json /\ Converted.kind = "ok") =>
              r_pc = "returned" /\ r_response.body = Converted.body
        /\ r_pc = "raised" => Applied /\ Converted.kind = "raise" /\ r_raised = Converted.exc

\* no schema, both flags set: an object that no schema of the model accepts
\* is converted by the custom serializer and returned
C20_Witness ==
    /\ r_pc = "returned" /\ ~SchemaDeclared /\ RouteFlag /\ AppFlag
    /\ r_content = [body |-> CustomV, is_json |-> TRUE]
    /\ r_response.body = StrV("custom")

----------------------------------------------------------------------------
(* C14 *)

\* the request binder run on one request from beginning to end
bind_alone(req) ==
    LET p == request_params_to_args(req.route.path, req.args)
        q == request_params_to_args(req.route.query,
                                    normalize_multi_params(req.query, req.route.query))
        h == request_params_to_args(req.route.header,
                                    normalize_multi_params(req.headers, req.route.header))
        v == merged_values(p, q, h)
        e == merged_errors(p, q, h)
        has_body == req.route.body # NoParams
        got == get_body(req.content_type, req.doc)
        b == IF has_body /\ got.kind = "ok"
             THEN request_body_to_args(req.route.body, got.body) ELSE EmptyAcc
    IN  IF has_body /\ got.kind = "raise"
        THEN [values |-> v, errors |-> e, raised |-> got.exc,
              route_args |-> req.args, next_calls |-> 0]
        ELSE IF e \o b.errors # << >>
        THEN [values |-> Update(v, b.values), errors |-> e \o b.errors,
              raised |-> RequestValidationError(normalize_errors(e \o b.errors), None),
              route_args |-> req.args, next_calls |-> 0]
        ELSE [values |-> Update(v, b.values), errors |-> << >>, raised |-> NoException,
              route_args |-> Update(v, b.values), next_calls |-> 1]

\* the response binder run on the response of one request
respond_alone(req, self) ==
    IF truthy(req.response.body) /\ req.response.is_json
    THEN LET r == serialize_response(self, req.ret.return_param, req.ret.serializable,
                                     req.response.body,
                                     req.ret.custom_response_validation_http_code # None)
         IN  IF r.kind = "ok"
             THEN [raised |-> NoException, response |-> [req.response EXCEPT !.body = r.body]]
             ELSE [raised |-> r.exc, response |-> req.response]
    ELSE [raised |-> NoException, response |-> req.response]

\* the single-request machine ends where bind_alone says
C14_AloneIsSpec ==
    Finished =>
        LET a == bind_alone([route |-> route, args |-> received.args,
                             query |-> received.query, headers |-> received.headers,
                             content_type |-> content_type, doc |-> decoded_body])
        IN  /\ values = a.values /\ errors = a.errors /\ raised = a.raised
            /\ route_args = a.route_args /\ next_calls = a.next_calls

\* the single-response machine ends where respond_alone says
C14_AloneIsRespSpec ==
    RespFinished =>
        LET a == respond_alone([response |-> r_content, ret |-> r_route], r_self)
        IN  r_raised = a.raised /\ r_response = a.response /\ r_next_calls = 1

C_Past(p, positions) == c_pc[p] \notin positions

\* C14: two requests, each with its own context and event, bound by the
\* same middleware instances, steps interleaved in any order: at every
\* moment what has been bound for a request is what its own inputs give,
\* and when a request has finished, its values map, its error list, its
\* handler arguments, its response and the exception raised are those of
\* the same request bound alone.
C14_Isolated ==
    \A p \in Procs :
        LET req == c_req[p]
            a == bind_alone(req)
            r == respond_alone(req, r_self)
        IN  /\ C_Past(p, {"start"}) =>
                  Frame(p).path_r = request_params_to_args(req.route.path, req.args)
            /\ C_Past(p, {"start", "path"}) =>
                  /\ c_app[p].query_params = normalize_multi_params(req.query, req.route.query)
                  /\ Frame(p).query_r =
                        request_params_to_args(req.route.query, c_app[p].query_params)
            /\ C_Past(p, {"start", "path", "query"}) =>
                  /\ c_app[p].headers_field =
                        normalize_multi_params(req.headers, req.route.header)
                  /\ Frame(p).header_r =
                        request_params_to_args(req.route.header, c_app[p].headers_field)
            /\ c_pc[p] \in {"raised", "done"} =>
                  /\ Frame(p).values = a.values
                  /\ Frame(p).errors = a.errors
                  /\ c_app[p].route_args = a.route_args
                  /\ c_out[p].next_calls = a.next_calls
                  /\ IF a.raised # NoException
                     THEN c_pc[p] = "raised" /\ c_out[p].raised = a.raised
                          /\ Frame(p).response = NoResponse
                     ELSE c_out[p].raised = r.raised /\ Frame(p).response = r.response
                          /\ (c_pc[p] = "raised") = (r.raised # NoException)

\* on the same route: request 1 has failed with its three errors while
\* request 2 is in the middle of binding, without any error
C14_Witness ==
    /\ c_req[1].route = MultiRoute /\ c_req[2].route = MultiRoute
    /\ c_pc[1] = "raised" /\ Len(c_out[1].raised.errors) = 3
    /\ c_pc[2] = "merged" /\ Frame(2).errors = << >>
    /\ Frame(2).values = (("item_id" :> IntV("7")) @@ ("q" :> StrV("x")) @@ ("h" :> StrV("d")))

----------------------------------------------------------------------------
(* C21 *)

\* the ways the request binder fails
C21_Failure ==
    CASE raised.kind = "NotImplementedError" -> "unsupported content type"
      [] raised.kind = "RequestValidationError" /\ ~BodyRead -> "JSON decode failure"
      [] raised.kind = "RequestValidationError" -> "aggregated validation errors"
      [] OTHER -> "none"

\* C21: however the request binder fails (aggregated validation errors,
\* JSON decode failure, unsupported content type), app.context["_route_args"]
\* still is what it was before binding started and the next middleware has
\* not been invoked; when binding succeeds the next middleware is invoked
\* exactly once.
C21_FailureLeavesArguments ==
    /\ pc = "raised" =>
          /\ C21_Failure # "none"
          /\ route_args = received.args
          /\ next_calls = 0
    /\ pc = "done" => raised = NoException /\ next_calls = 1
    /\ pc \notin {"done", "off"} => next_calls = 0
    /\ raised # NoException => pc = "raised"

\* aggregated errors: the path argument was bound to a value, the query
\* failed, and the arguments are the ones received
C21_Witness ==
    /\ pc = "raised" /\ route.id = "multi" /\ C21_Failure = "aggregated validation errors"
    /\ Get(values, "item_id") = IntV("7")
    /\ route_args = ("id" :> StrV("7")) /\ next_calls = 0

\* the two other failures
C21_WitnessDecode ==
    pc = "raised" /\ C21_Failure = "JSON decode failure" /\ route_args # EmptyMap

C21_WitnessContentType ==
    pc = "raised" /\ C21_Failure = "unsupported content type" /\ route_args # EmptyMap

----------------------------------------------------------------------------
(* C22 *)

\* a mapping without its entries that are None
WithoutNulls(m) == [k \in {x \in DOMAIN m : m[x] # None} |-> m[k]]

\* the field has an entry in its source, and the entry is None
C22_Null(f) ==
    CASE f.in_ = "path" -> f.alias \in DOMAIN received.args /\ received.args[f.alias] = None
      [] f.in_ = "query" ->
            f.alias \in DOMAIN received.query /\ received.query[f.alias] = None
      [] f.in_ = "header" ->
            f.alias \in DOMAIN received.headers /\ received.headers[f.alias] = None
      [] OTHER ->
            IF AliasOmitted THEN decoded_body = "null" /\ received_body = None
            ELSE /\ received_body.k = "obj"
                 /\ f.alias \in DOMAIN received_body.obj
                 /\ received_body.obj[f.alias] = None

\* the same request with the None entries taken out of the raw maps
C22_Absent ==
    bind_alone([route |-> route, args |-> WithoutNulls(received.args),
                query |-> WithoutNulls(received.query),
                headers |-> WithoutNulls(received.headers),
                content_type |-> content_type, doc |-> decoded_body])

----------------------------------------------------------------------------
(* C23 *)

\* the request of this behaviour with an empty body and no content type
C23_WithoutBody ==
    bind_alone([route |-> route, args |-> received.args, query |-> received.query,
                headers |-> received.headers, content_type |-> << >>, doc |-> ""])

\* the errors of an exception are all at path, query or header locations
C23_ParamErrorsOnly(exc) ==
    \A i \in 1..Len(exc.errors) :
        /\ exc.errors[i].loc[1] \in {"path", "query", "header"}
        /\ exc.errors[i].type # "json_invalid"

\* C23: when the route declares no body field the body and the content type
\* are never read: no NotImplementedError and no JSON decode error is raised,
\* and the request ends as it ends with an empty body and no content type,
\* that is, as its path, query and header inputs alone decide.
C23_BodyNeverExamined ==
    route.body = NoParams =>
        /\ received_body = NotRead
        /\ body_r = EmptyAcc
        /\ raised.kind # "NotImplementedError"
        /\ raised # NoException => C23_ParamErrorsOnly(raised)
        /\ Finished =>
              /\ values = C23_WithoutBody.values
              /\ errors = C23_WithoutBody.errors
              /\ raised = C23_WithoutBody.raised
              /\ route_args = C23_WithoutBody.route_args
              /\ next_calls = C23_WithoutBody.next_calls

\* an unsupported content type and a body that is not JSON, and the request
\* goes through
C23_Witness ==
    /\ pc = "done" /\ route.body = NoParams
    /\ content_type = <<"text/plain">> /\ decoded_body = "{\"name\""
    /\ get_body(content_type, decoded_body).kind = "raise"
    /\ route_args = (("q" :> StrV("x")) @@ ("h" :> IntV("7")))
    /\ next_calls = 1

\* a JSON content type and a body that does not decode, and the request goes
\* through
C23_WitnessUndecodable ==
    /\ pc = "done" /\ route.body = NoParams
    /\ JsonContent /\ decoded_body = "{\"name\""
    /\ get_body(content_type, decoded_body).exc.kind = "RequestValidationError"
    /\ next_calls = 1

----------------------------------------------------------------------------
(* C24 *)

\* the bodies Python takes for false
C24_EmptyBodies == {None, StrV(""), IntV("0"), ListV(<< >>), ObjV(EmptyMap)}

\* the handler's response has a non-empty body and is JSON
C24_Gate == r_content.body \notin C24_EmptyBodies /\ r_content.is_json

\* C24: the response is validated and rewritten only when its body is
\* non-empty and it is JSON; otherwise it is returned with its body
\* unchanged and nothing is raised, also when the body fails the declared
\* return schema.  An exception leaves the middleware only after the one
\* call of the next middleware.
C24_OnlyJsonBodies ==
    /\ (RespFinished /\ ~C24_Gate) =>
          /\ r_pc = "returned"
          /\ r_response = r_content
          /\ r_raised = NoException
    /\ (RespFinished /\ C24_Gate) =>
          /\ Binder.kind = "ok" =>
                /\ r_pc = "returned"
                /\ r_response = [r_content EXCEPT !.body = Binder.body]
                /\ r_raised = NoException
          /\ Binder.kind = "raise" =>
                /\ r_pc = "raised"
                /\ r_raised = Binder.exc
                /\ r_response = r_content
    /\ r_raised # NoException => C24_Gate /\ r_next_calls = 1
    /\ r_next_calls = (IF Responded THEN 1 ELSE 0)

\* a body that is not JSON fails the return schema and comes back as it is
C24_Witness ==
    /\ r_pc = "returned" /\ SchemaDeclared /\ SchemaErrors # << >>
    /\ RouteFlag /\ AppFlag
    /\ r_content.body = StrV("x") /\ ~r_content.is_json
    /\ Binder.kind = "raise"
    /\ r_response = r_content /\ r_raised = NoException /\ r_next_calls = 1

\* an empty JSON body fails the return schema and comes back as it is
C24_WitnessEmpty ==
    /\ r_pc = "returned" /\ SchemaDeclared /\ SchemaErrors # << >>
    /\ r_content.body \in C24_EmptyBodies /\ r_content.is_json
    /\ Binder.kind = "raise"
    /\ r_response = r_content /\ r_raised = NoException

\* a non-empty JSON body fails the return schema: raised after the handler ran
C24_WitnessRaised ==
    /\ r_pc = "raised" /\ C24_Gate /\ SchemaErrors # << >>
    /\ r_raised = Binder.exc /\ r_next_calls = 1

\* a non-empty JSON body is rewritten
C24_WitnessRewritten ==
    /\ r_pc = "returned" /\ C24_Gate
    /\ r_response.body = Binder.body /\ r_response.body # r_content.body

----------------------------------------------------------------------------
(* C25 *)

\* the aliases of the declared scalar and structured parameters
C25_Rewritable ==
    {n_params[i].alias : i \in {j \in 1..Len(n_params) :
                                  is_scalar_field(n_params[j]) \/ is_model_field(n_params[j])}}

\* the aliases of the declared sequence parameters
C25_Sequences ==
    {n_params[i].alias : i \in {j \in 1..Len(n_params) :
                                  field_annotation_is_sequence(n_params[j])}}

\* the entry of key k is in both maps, with the same value
C25_SameEntry(before, after, k) ==
    /\ k \in DOMAIN before <=> k \in DOMAIN after
    /\ k \in DOMAIN before => after[k] = before[k]

\* C25: the normalizer changes the mapping it was given and returns that
\* mapping; every key that is not the alias of a declared scalar or
\* structured parameter keeps its entry, none of these keys is added, and
\* the entries of the declared sequence parameters stay as they were, in
\* the first call and in the second.
C25_OthersUntouched ==
    /\ n_pc \in {"once", "twice"} =>
          /\ n_returned = n_once
          /\ n_once = normalize_multi_params(n_input, n_params)
          /\ \A k \in (DOMAIN n_input \cup DOMAIN n_once) \ C25_Rewritable :
                C25_SameEntry(n_input, n_once, k)
          /\ \A k \in C25_Sequences : C25_SameEntry(n_input, n_once, k)
          /\ DOMAIN n_input \subseteq DOMAIN n_once
    /\ n_pc = "twice" =>
          /\ \A k \in (DOMAIN n_once \cup DOMAIN n_twice) \ C25_Rewritable :
                C25_SameEntry(n_once, n_twice, k)
          /\ \A k \in C25_Sequences : C25_SameEntry(n_once, n_twice, k)

\* a sequence parameter with a one-element list and a structured parameter
\* read from the flat entry "min": the list and the flat entry stay, the
\* object is added
C25_Witness ==
    /\ n_pc = "once"
    /\ Len(n_params) = 2
    /\ n_params[1] = SeqField("labels", "label", "query", FALSE)
    /\ n_params[2].alias = "flt"
    /\ n_input = (("label" :> ListV(<<"x">>)) @@ ("min" :> ListV(<<"x">>)))
    /\ n_once = (("label" :> ListV(<<"x">>)) @@ ("min" :> ListV(<<"x">>))
                   @@ ("flt" :> ObjV("min" :> StrV("x"))))
    /\ n_returned = n_once

\* a scalar parameter is unwrapped while the sequence parameter is not
C25_WitnessScalar ==
    /\ n_pc = "once"
    /\ C25_Rewritable = {"q"} /\ C25_Sequences = {"label"}
    /\ n_input = (("label" :> ListV(<<"x">>)) @@ ("q" :> ListV(<<"x">>)))
    /\ n_once = (("label" :> ListV(<<"x">>)) @@ ("q" :> StrV("x")))

====
